---- MODULE Spec2Model ----
(***************************************************************************)
(* A model of the perf_event_open library: the data ring buffer and its    *)
(* copy-on-write chunks (sample/rb), the Counter/Sampler ownership of the  *)
(* perf file (count/mod.rs, sample/mod.rs) and the asynchronous iterator   *)
(* with its epoll helper thread (sample/iter/cow.rs).                      *)
(*                                                                         *)
(* The kernel is the environment.  It appends framed records at data_head  *)
(* and never writes beyond data_tail + RingSize; it reports readiness of   *)
(* the perf file through epoll as a bit mask.                              *)
(***************************************************************************)
EXTENDS Integers, Sequences, FiniteSets, TLC

(* ---------------------------- bounds ----------------------------------- *)

\* Length in bytes of the data ring (2^exp pages in the program).
RingSize == 16

\* Longest record the kernel writes; the shortest is a bare header.
MaxRecLen == 10

\* Number of records the kernel writes in one behaviour.
MaxRecords == 3

\* Number of lending_pop calls in one behaviour.
MaxPops == 4

\* Iterators obtained from one Sampler (Sampler::iter takes &self).
NumIters == 2

\* Width of usize in bits, scaled down from 64.
UsizeBits == 24

\* Largest exponent passed to Counter::sampler.
MaxExp == 25

\* Number of Counter::sampler calls in one behaviour.
MaxSamplerCalls == 4

\* Number of polls of the asynchronous iterator in one behaviour.
MaxPolls == 3

\* Number of EINTR failures of epoll_wait in one behaviour.
MaxSpins == 1

\* Number of perf_event_open calls CounterGroup::add makes in one behaviour.
MaxSiblings == 2

\* Settings of an Opts that differ from Opts::default()
MaxOpts == 1

\* Layout settings of the sampler whose records are parsed
MaxFields == 2

\* Registers sampled into a record
MaxRegs == 1

\* Entries of a list in a record, 8-byte units of its byte arrays
MaxCount == 1

\* Length in bytes of the AUX ring (2^exp pages in the program).
AuxSize == 8

\* Number of bytes the tracer writes to the AUX ring in one behaviour.
MaxAuxBytes == 14

\* Most bytes the tracer appends at once.
MaxAuxWrite == 5

\* Largest max_chunk_len passed to lending_pop; 0 stands for None.
MaxAuxChunk == 3

\* Number of lending_pop calls on the AUX ring in one behaviour.
MaxAuxPops == 4

\* The longest variable-length field of a record, in bytes.
MaxVarLen == 9

\* The count given with SampleOn::Count in the enumerated Opts
SamplePeriod == 4

\* Number of ioctl calls made on the perf file in one behaviour.
MaxIoctls == 3

\* Largest max_samples passed to Sampler::enable_counter_with.
MaxRefresh == 2

\* Largest number of BPF programs attached to a tracepoint, and largest
\* buf_len passed to Counter::query_bpf.
MaxProgs == 2

(* --------------------------- constants --------------------------------- *)

\* struct perf_event_header { u32 type; u16 misc; u16 size; }
HeaderSize == 8

\* sysconf(_SC_PAGE_SIZE)
PageSize == 4096

\* sync_channel::<Waker>(1)
ChanCap == 1

Iters == 1..NumIters

NoChunk == [kind |-> "NoChunk"]

(* ------------------------------ state ---------------------------------- *)

VARIABLES
    alloc,      \* Rb::alloc, the bytes of the data ring
    tail,       \* Metadata::data_tail, written by the consumer
    head,       \* Metadata::data_head, written by the kernel, never wrapped
    full,       \* kernel bookkeeping: the unread bytes fill the whole ring
    chunk,      \* per iterator, the CowChunk lent to the closure, if any
    popRet,     \* per iterator, what its last lending_pop returned
    stores,     \* per iterator, number of stores to data_tail it issued
    lastStore,  \* the last store to data_tail: value, ordering, place
    written,    \* history: the records the kernel wrote, in order
    delivered,  \* history: the chunks lending_pop returned, in order
    ub,         \* lending_pop read outside the ring (undefined behaviour)
    \* Counter and Sampler
    strong,     \* Arc::strong_count(&Counter::perf)
    samplers,   \* number of live Samplers made from the Counter
    arenaLen,   \* Arena::len of the last mapping made
    mmaps,      \* number of mmap calls made
    calls,      \* number of Counter::sampler calls made
    samplerRet, \* what the last Counter::sampler call returned
    \* asynchronous iterator and its helper thread
    txAlive,    \* AsyncCowIter::waker (the SyncSender) exists
    rxAlive,    \* the Receiver owned by the helper thread exists
    chan,       \* wakers buffered in the sync_channel
    hpc,        \* position of the helper thread
    held,       \* the waker the helper thread took from the channel
    woken,      \* wakers on which wake() was called
    pollIn,     \* the perf file reports EPOLLIN
    hup,        \* the perf file reports EPOLLHUP
    lastMask,   \* event mask of the last epoll_wait return ({} on error)
    spins,      \* epoll_wait returns the helper ignored
    ppc,        \* position of the thread polling the future
    npolls,     \* number of polls started; poll n supplies waker n
    pollRes,    \* what the last poll returned
    sawHup,     \* the helper thread took the EPOLLHUP arm
    pollAfterHup, \* the last poll started after the helper saw EPOLLHUP
    \* the build, the attribute assembler and the counter group
    kver,       \* kernel version of the headers the crate is built against
    overflow_checks, \* the profile panics on integer overflow (debug)
    event,      \* the event of the last Counter::new or CounterGroup::add
    opts,       \* the Opts of the last Counter::new or CounterGroup::add
    attr,       \* what the attribute assembler returned for them
    leader,     \* CounterGroup::leader: its read_format and read_buf length
    group,      \* the leader was made a CounterGroup
    siblings,   \* CounterGroup::siblings.len()
    opens,      \* number of perf_event_open calls made
    newRet,     \* what the last Counter::new or CounterGroup::add returned
    sized,      \* the read-buffer sizings of the last call
    stat,       \* what the last Counter::stat on the leader returned
    \* the AUX ring
    auxAlloc,   \* auxiliary::Rb::alloc, the bytes of the AUX ring
    auxTail,    \* Metadata::aux_tail, written by the consumer
    auxHead,    \* Metadata::aux_head, written by the kernel, never wrapped
    auxChunk,   \* the CowChunk lent to the closure, if any
    auxPops,    \* number of lending_pop calls made
    \* records and their parser
    parser,     \* the UnsafeParser of the sampler
    record,     \* the record the kernel wrote: its type and its u64 words
    parsed,     \* what UnsafeParser::parse did with it
    \* the counter, its ioctl operations and the kernel's event
    cached,     \* Counter::attr, the perf_event_attr kept by Counter::new
    nioctls,    \* number of ioctl calls made on the perf file
    lastIoctl,  \* operation and argument of the last of them
    ctlRet,     \* the last Counter or Sampler call and what it returned
    enabled,    \* kernel: the event is active
    event_limit, \* kernel: overflows left until the event disables itself
    evcount,    \* kernel: the event count
    nsamples,   \* history: samples written since the last REFRESH
    sig         \* kernel: band of the last I/O signal of the perf file

ringVars == <<alloc, tail, head, full, chunk, popRet, stores, lastStore,
              written, delivered, ub>>

counterVars == <<strong, samplers, arenaLen, mmaps, calls, samplerRet>>

asyncVars == <<txAlive, rxAlive, chan, hpc, held, woken, pollIn, hup,
               lastMask, spins, ppc, npolls, pollRes, sawHup, pollAfterHup>>

buildVars == <<kver, overflow_checks>>

groupVars ==
    <<event, opts, attr, leader, group, siblings, opens, newRet, sized,
      stat>>

auxVars == <<auxAlloc, auxTail, auxHead, auxChunk, auxPops>>

parseVars == <<parser, record, parsed>>

ctlVars == <<cached, nioctls, lastIoctl, ctlRet, enabled, event_limit,
             evcount, nsamples, sig>>

otherVars == <<buildVars, groupVars, auxVars, parseVars, ctlVars>>

vars == <<ringVars, counterVars, asyncVars, otherVars>>

(* ------------------------ the kernel (producer) ------------------------ *)

\* Bytes of the n-th record of length len: type = n, misc = 0, size = len,
\* then a payload that differs from byte to byte and record to record.
RecordBytes(n, len) ==
    [k \in 1..len |->
        CASE k = 1 -> n
          [] k \in 2..6 -> 0
          [] k = 7 -> len % 256
          [] k = 8 -> len \div 256
          [] OTHER -> (16 * n + k) % 256]

\* Unread bytes as the kernel sees them from the two cursors.
Unread == IF full THEN RingSize ELSE (head - tail) % RingSize

\* perf_output_begin/perf_output_end: the record is copied at data_head,
\* wrapping at the ring end, and data_head is advanced.
WriteRecord(len) ==
    /\ ~ub
    /\ Len(written) < MaxRecords
    /\ Unread + len <= RingSize
    /\ LET rec == RecordBytes(Len(written) + 1, len)
       IN /\ alloc' = [p \in 0..(RingSize - 1) |->
                         LET off == (p - head) % RingSize
                         IN IF off < len THEN rec[off + 1] ELSE alloc[p]]
          /\ written' = Append(written, rec)
    /\ head' = head + len
    /\ full' = (Unread + len = RingSize)
    /\ popRet' = [i \in Iters |-> "-"]
    /\ UNCHANGED <<tail, chunk, stores, lastStore, delivered, ub>>

KernelWrite(len) ==
    /\ WriteRecord(len)
    /\ UNCHANGED <<counterVars, asyncVars, otherVars>>

(* --------------------------- Rb::lending_pop --------------------------- *)

\* transmute::<[u8; 2], u16> and *(ptr as *const u16), little endian.
U16(b0, b1) == b0 + 256 * b1

\* ChunkLen with the `Ord::Less` arm off by one byte.
ChunkLenLessOffByOne(a, t) ==
    LET d == RingSize - t
    IN IF d > 7 THEN U16(a[t + 6], a[t + 7])
       ELSE IF d < 7 THEN U16(a[7 - d], a[7 - d + 1])
       ELSE U16(a[t + 6], a[0])

\* The `chunk_len` block: the u16 at offset 6 of the header at `t`.
ChunkLen(a, t) ==
    LET d == RingSize - t
    IN IF d > 7 THEN U16(a[t + 6], a[t + 7])
       ELSE IF d < 7 THEN U16(a[6 - d], a[6 - d + 1])
       ELSE U16(a[t + 6], a[0])

\* slice::from_raw_parts(rb_ptr.add(tail), chunk_len)
RingSlice(a, t, len) == [k \in 1..len |-> a[t + k - 1]]

\* CopyWrapped with the low part copied to the start of the buffer again
\* (buf_ptr instead of buf_ptr.add(hi_part_len)).
CopyWrappedLoAtStart(a, t, len, d) ==
    LET hi_part_len == len + d
        lo_part_len == -d
    IN [k \in 1..len |->
          IF k <= lo_part_len THEN a[k - 1]
          ELSE IF k <= hi_part_len THEN a[t + k - 1] ELSE 0]

\* The two copy_nonoverlapping calls into the owned buffer.
CopyWrapped(a, t, len, d) ==
    LET hi_part_len == len + d
        lo_part_len == -d
    IN [k \in 1..len |->
          IF k <= hi_part_len THEN a[t + k - 1] ELSE a[k - hi_part_len - 1]]

\* The value lending_pop returns for ring `a`, tail `t` and head `h`.
LendingPop(a, t, h) ==
    IF t = h % RingSize THEN NoChunk
    ELSE LET chunk_len == ChunkLen(a, t)
             new_tail == (t + chunk_len) % RingSize
             d == RingSize - (t + chunk_len)
         IN IF d >= 0
            THEN [kind |-> "Borrowed", tail |-> t, new_tail |-> new_tail,
                  len |-> chunk_len, bytes |-> RingSlice(a, t, chunk_len)]
            ELSE IF -d > RingSize
            THEN [kind |-> "OutOfBounds"]
            ELSE [kind |-> "Owned", tail |-> t, new_tail |-> new_tail,
                  len |-> chunk_len, bytes |-> CopyWrapped(a, t, chunk_len, d)]

\* CowChunk::as_bytes: a borrowed chunk is a view of the ring.
AsBytes(c) ==
    IF c.kind = "Borrowed" THEN RingSlice(alloc, c.tail, c.len) ELSE c.bytes

TailStore(v, at, i) == [val |-> v, ord |-> "Release", at |-> at, by |-> i]

\* CowIter::next of iterator i up to the call of the closure.
Pop(i) ==
    /\ ~ub
    /\ chunk[i] = NoChunk
    /\ Len(delivered) < MaxPops
    /\ LET c == LendingPop(alloc, tail, head)
       IN CASE c.kind = "NoChunk" ->
                 /\ popRet' = [popRet EXCEPT ![i] = "None"]
                 /\ UNCHANGED <<tail, full, chunk, stores, lastStore,
                                delivered, ub>>
            [] c.kind = "Borrowed" ->
                 /\ chunk' = [chunk EXCEPT ![i] = c]
                 /\ popRet' = [popRet EXCEPT ![i] = "Some"]
                 /\ delivered' = Append(delivered, c.bytes)
                 /\ UNCHANGED <<tail, full, stores, lastStore, ub>>
            [] c.kind = "Owned" ->
                 /\ chunk' = [chunk EXCEPT ![i] = c]
                 /\ popRet' = [popRet EXCEPT ![i] = "Some"]
                 /\ delivered' = Append(delivered, c.bytes)
                 /\ tail' = c.new_tail
                 /\ full' = FALSE
                 /\ stores' = [stores EXCEPT ![i] = @ + 1]
                 /\ lastStore' = TailStore(c.new_tail, "pop", i)
                 /\ UNCHANGED ub
            [] OTHER ->
                 /\ ub' = TRUE
                 /\ UNCHANGED <<tail, full, chunk, popRet, stores, lastStore,
                                delivered>>
    /\ UNCHANGED <<alloc, head, written>>
    /\ UNCHANGED <<counterVars, asyncVars, otherVars>>

(* ------------------------- impl Drop for CowChunk ---------------------- *)

\* DropChunk without the store (the tail is never published).
DropChunkNoStore(i) ==
    /\ ~ub
    /\ chunk[i] # NoChunk
    /\ chunk' = [chunk EXCEPT ![i] = NoChunk]
    /\ popRet' = [popRet EXCEPT ![i] = "-"]
    /\ UNCHANGED <<tail, full, stores, lastStore>>
    /\ UNCHANGED <<alloc, head, written, delivered, ub>>
    /\ UNCHANGED <<counterVars, asyncVars, otherVars>>

\* DropChunk without the `if let Cow::Borrowed(_)` test.
DropChunkAlways(i) ==
    /\ ~ub
    /\ chunk[i] # NoChunk
    /\ chunk' = [chunk EXCEPT ![i] = NoChunk]
    /\ popRet' = [popRet EXCEPT ![i] = "-"]
    /\ tail' = chunk[i].new_tail
    /\ full' = FALSE
    /\ stores' = [stores EXCEPT ![i] = @ + 1]
    /\ lastStore' = TailStore(chunk[i].new_tail, "drop", i)
    /\ UNCHANGED <<alloc, head, written, delivered, ub>>
    /\ UNCHANGED <<counterVars, asyncVars, otherVars>>

\* DropChunk publishing the tail the chunk was read at.
DropChunkOldTail(i) ==
    /\ ~ub
    /\ chunk[i] # NoChunk
    /\ chunk' = [chunk EXCEPT ![i] = NoChunk]
    /\ popRet' = [popRet EXCEPT ![i] = "-"]
    /\ IF chunk[i].kind = "Borrowed"
       THEN /\ tail' = chunk[i].tail
            /\ full' = FALSE
            /\ stores' = [stores EXCEPT ![i] = @ + 1]
            /\ lastStore' = TailStore(chunk[i].tail, "drop", i)
       ELSE UNCHANGED <<tail, full, stores, lastStore>>
    /\ UNCHANGED <<alloc, head, written, delivered, ub>>
    /\ UNCHANGED <<counterVars, asyncVars, otherVars>>

DropChunk(i) ==
    /\ ~ub
    /\ chunk[i] # NoChunk
    /\ chunk' = [chunk EXCEPT ![i] = NoChunk]
    /\ popRet' = [popRet EXCEPT ![i] = "-"]
    /\ IF chunk[i].kind = "Borrowed"
       THEN /\ tail' = chunk[i].new_tail
            /\ full' = FALSE
            /\ stores' = [stores EXCEPT ![i] = @ + 1]
            /\ lastStore' = TailStore(chunk[i].new_tail, "drop", i)
       ELSE UNCHANGED <<tail, full, stores, lastStore>>
    /\ UNCHANGED <<alloc, head, written, delivered, ub>>
    /\ UNCHANGED <<counterVars, asyncVars, otherVars>>

(* ------------------------ Counter and Sampler -------------------------- *)

UsizeMax == 2^UsizeBits - 1

\* The length computed with a wrapping multiplication by the page size
\* (a power of two no larger than usize).
ArenaLenWrappingMul(exp) ==
    IF exp >= UsizeBits THEN -1
    ELSE LET n == 2^exp + 1
         IN IF n > UsizeMax THEN -1
            ELSE (n % ((UsizeMax + 1) \div PageSize)) * PageSize

\* 2_usize.checked_pow(exp).and_then(checked_add(1))
\*        .and_then(checked_mul(PAGE_SIZE)); -1 stands for None.
ArenaLen(exp) ==
    IF exp >= UsizeBits THEN -1
    ELSE LET n == 2^exp + 1
         IN IF n > UsizeMax THEN -1
            ELSE IF n > UsizeMax \div PageSize THEN -1
            ELSE n * PageSize

\* SamplerNew with the cloned Arc kept when mmap fails.
SamplerNewKeepsArc(exp, mmapOk) ==
    LET len == ArenaLen(exp)
    IN IF len = -1
       THEN /\ samplerRet' = "Overflow"
            /\ UNCHANGED <<strong, samplers, arenaLen, mmaps>>
       ELSE /\ mmaps' = mmaps + 1
            /\ strong' = strong + 1
            /\ IF mmapOk
               THEN /\ samplerRet' = "Ok"
                    /\ samplers' = samplers + 1
                    /\ arenaLen' = len
               ELSE /\ samplerRet' = "MmapError"
                    /\ UNCHANGED <<samplers, arenaLen>>

\* Sampler::new with the cloned Arc: the clone is dropped on every error.
SamplerNew(exp, mmapOk) ==
    LET len == ArenaLen(exp)
    IN IF len = -1
       THEN /\ samplerRet' = "Overflow"
            /\ UNCHANGED <<strong, samplers, arenaLen, mmaps>>
       ELSE /\ mmaps' = mmaps + 1
            /\ IF mmapOk
               THEN /\ samplerRet' = "Ok"
                    /\ strong' = strong + 1
                    /\ samplers' = samplers + 1
                    /\ arenaLen' = len
               ELSE /\ samplerRet' = "MmapError"
                    /\ UNCHANGED <<strong, samplers, arenaLen>>

\* Counter::sampler without the strong_count test.
CounterSamplerUnchecked(exp, mmapOk) ==
    /\ calls < MaxSamplerCalls
    /\ calls' = calls + 1
    /\ SamplerNew(exp, mmapOk)
    /\ UNCHANGED <<ringVars, asyncVars, otherVars>>

\* Counter::sampler
CounterSampler(exp, mmapOk) ==
    /\ calls < MaxSamplerCalls
    /\ calls' = calls + 1
    /\ IF strong = 1
       THEN SamplerNew(exp, mmapOk)
       ELSE /\ samplerRet' = "AlreadyExists"
            /\ UNCHANGED <<strong, samplers, arenaLen, mmaps>>
    /\ UNCHANGED <<ringVars, asyncVars, otherVars>>

\* Drop of a Sampler: its Arena is unmapped and its Arc<File> released.
SamplerDrop ==
    /\ samplers > 0
    /\ samplers' = samplers - 1
    /\ strong' = strong - 1
    /\ samplerRet' = "-"
    /\ UNCHANGED <<arenaLen, mmaps, calls>>
    /\ UNCHANGED <<ringVars, asyncVars, otherVars>>

InitCounter ==
    /\ strong = 1
    /\ samplers = 0
    /\ arenaLen = 0
    /\ mmaps = 0
    /\ calls = 0
    /\ samplerRet = "-"

(* --------- AsyncCowIter and the helper thread of into_async ------------ *)

EPOLLIN == "EPOLLIN"

EPOLLHUP == "EPOLLHUP"

NoWaker == 0

\* The kernel writes a record and, depending on the wake-up settings of the
\* event, marks the perf file readable.
KernelOutput(len, wake) ==
    /\ WriteRecord(len)
    /\ pollIn' = (pollIn \/ wake)
    /\ UNCHANGED <<txAlive, rxAlive, chan, hpc, held, woken, hup, lastMask,
                   spins, ppc, npolls, pollRes, sawHup, pollAfterHup>>
    /\ UNCHANGED <<counterVars, otherVars>>

\* The monitored task exits: the perf file hangs up.
Hangup ==
    /\ ~hup
    /\ hup' = TRUE
    /\ UNCHANGED <<txAlive, rxAlive, chan, hpc, held, woken, pollIn,
                   lastMask, spins, ppc, npolls, pollRes, sawHup,
                   pollAfterHup>>
    /\ UNCHANGED <<ringVars, counterVars, otherVars>>

\* iter.waker.send(waker) and the match on its result; w is the waker.
\* The send blocks while the buffer is full and the receiver exists.
SendWaker(w) ==
    IF ~rxAlive
    THEN /\ pollRes' = "None"
         /\ ppc' = "idle"
         /\ UNCHANGED chan
    ELSE IF Len(chan) < ChanCap
    THEN /\ chan' = Append(chan, w)
         /\ pollRes' = "Pending"
         /\ ppc' = "idle"
    ELSE /\ pollRes' = "Blocked"
         /\ ppc' = "blocked"
         /\ UNCHANGED chan

\* Fut::poll of AsyncCowIter::next.  A chunk that lending_pop returns is
\* handed to the closure and dropped before poll returns.
Poll ==
    /\ ~ub
    /\ txAlive
    /\ ppc = "idle"
    /\ npolls < MaxPolls
    /\ npolls' = npolls + 1
    /\ pollAfterHup' = sawHup
    /\ LET c == LendingPop(alloc, tail, head)
       IN CASE c.kind = "NoChunk" ->
                 /\ SendWaker(npolls + 1)
                 /\ popRet' = [popRet EXCEPT ![1] = "None"]
                 /\ UNCHANGED <<tail, full, stores, lastStore, delivered, ub>>
            [] c.kind \in {"Borrowed", "Owned"} ->
                 /\ pollRes' = "Some"
                 /\ popRet' = [popRet EXCEPT ![1] = "-"]
                 /\ delivered' = Append(delivered, c.bytes)
                 /\ tail' = c.new_tail
                 /\ full' = FALSE
                 /\ stores' = [stores EXCEPT ![1] = @ + 1]
                 /\ lastStore' =
                       TailStore(c.new_tail,
                                 IF c.kind = "Owned" THEN "pop" ELSE "drop", 1)
                 /\ UNCHANGED <<chan, ppc, ub>>
            [] OTHER ->
                 /\ ub' = TRUE
                 /\ pollRes' = "-"
                 /\ UNCHANGED <<tail, full, stores, lastStore, delivered,
                                popRet, chan, ppc>>
    /\ UNCHANGED <<alloc, head, chunk, written>>
    /\ UNCHANGED <<txAlive, rxAlive, hpc, held, woken, pollIn, hup, lastMask,
                   spins, sawHup>>
    /\ UNCHANGED <<counterVars, otherVars>>

\* The blocked send of a poll completes: room in the buffer, or the
\* receiver is gone.
PollUnblock ==
    /\ ppc = "blocked"
    /\ ~rxAlive \/ Len(chan) < ChanCap
    /\ SendWaker(npolls)
    /\ UNCHANGED <<txAlive, rxAlive, hpc, held, woken, pollIn, hup, lastMask,
                   spins, npolls, sawHup, pollAfterHup>>
    /\ UNCHANGED <<ringVars, counterVars, otherVars>>

\* Drop of the AsyncCowIter: the SyncSender is destroyed.
DropIter ==
    /\ txAlive
    /\ ppc = "idle"
    /\ txAlive' = FALSE
    /\ UNCHANGED <<rxAlive, chan, hpc, held, woken, pollIn, hup, lastMask,
                   spins, ppc, npolls, pollRes, sawHup, pollAfterHup>>
    /\ UNCHANGED <<ringVars, counterVars, otherVars>>

\* `while let Ok(waker) = rx.recv()`: a buffered waker is taken; with an
\* empty buffer and no sender the loop ends and the thread returns.
HelperRecv ==
    /\ hpc = "recv"
    /\ IF chan # <<>>
       THEN /\ held' = Head(chan)
            /\ chan' = Tail(chan)
            /\ hpc' = "epoll"
            /\ UNCHANGED rxAlive
       ELSE /\ ~txAlive
            /\ hpc' = "done"
            /\ rxAlive' = FALSE
            /\ UNCHANGED <<held, chan>>
    /\ UNCHANGED <<txAlive, woken, pollIn, hup, lastMask, spins, ppc, npolls,
                   pollRes, sawHup, pollAfterHup>>
    /\ UNCHANGED <<ringVars, counterVars, otherVars>>

\* The events epoll_wait reports for the perf file.
ReadyMask ==
    (IF pollIn THEN {EPOLLIN} ELSE {}) \cup (IF hup THEN {EPOLLHUP} ELSE {})

\* HelperEpoll with the EPOLLHUP arm waking and leaving the inner loop
\* only, as the EPOLLIN arm does (no drop(rx), `break` for `break 'exit`).
HelperEpollHupAsIn ==
    /\ hpc = "epoll"
    /\ ReadyMask # {}
    /\ lastMask' = ReadyMask
    /\ pollIn' = FALSE
    /\ IF ReadyMask = {EPOLLIN}
       THEN /\ hpc' = "wake_in"
            /\ UNCHANGED <<rxAlive, chan, sawHup, spins>>
       ELSE IF ReadyMask = {EPOLLHUP}
       THEN /\ sawHup' = TRUE
            /\ hpc' = "wake_in"
            /\ UNCHANGED <<rxAlive, chan, spins>>
       ELSE /\ spins' = spins + 1
            /\ UNCHANGED <<hpc, rxAlive, chan, sawHup>>
    /\ UNCHANGED <<txAlive, held, woken, hup, ppc, npolls, pollRes,
                   pollAfterHup>>
    /\ UNCHANGED <<ringVars, counterVars, otherVars>>

\* epoll_wait returns an event mask and the match on it: exactly EPOLLIN,
\* exactly EPOLLHUP (the receiver is dropped, buffered wakers with it),
\* anything else is ignored and epoll_wait is called again.  The mask is
\* local to the thread until drop(rx), so the return and drop(rx) are one
\* step.  EPOLLIN is reported once per kernel wake-up, EPOLLHUP for ever.
HelperEpoll ==
    /\ hpc = "epoll"
    /\ ReadyMask # {}
    /\ lastMask' = ReadyMask
    /\ pollIn' = FALSE
    /\ IF ReadyMask = {EPOLLIN}
       THEN /\ hpc' = "wake_in"
            /\ UNCHANGED <<rxAlive, chan, sawHup, spins>>
       ELSE IF ReadyMask = {EPOLLHUP}
       THEN /\ rxAlive' = FALSE
            /\ chan' = <<>>
            /\ sawHup' = TRUE
            /\ hpc' = "wake_hup"
            /\ UNCHANGED spins
       ELSE /\ spins' = spins + 1
            /\ UNCHANGED <<hpc, rxAlive, chan, sawHup>>
    /\ UNCHANGED <<txAlive, held, woken, hup, ppc, npolls, pollRes,
                   pollAfterHup>>
    /\ UNCHANGED <<ringVars, counterVars, otherVars>>

\* epoll_wait fails with EINTR: the `_` arm, try again.
HelperEintr ==
    /\ hpc = "epoll"
    /\ spins < MaxSpins
    /\ spins' = spins + 1
    /\ lastMask' = {}
    /\ UNCHANGED <<txAlive, rxAlive, chan, hpc, held, woken, pollIn, hup,
                   ppc, npolls, pollRes, sawHup, pollAfterHup>>
    /\ UNCHANGED <<ringVars, counterVars, otherVars>>

\* waker.wake(), then `break` or `break 'exit`.
HelperWake ==
    /\ hpc \in {"wake_in", "wake_hup"}
    /\ woken' = woken \cup {held}
    /\ held' = NoWaker
    /\ hpc' = IF hpc = "wake_in" THEN "recv" ELSE "done"
    /\ UNCHANGED <<txAlive, rxAlive, chan, pollIn, hup, lastMask, spins, ppc,
                   npolls, pollRes, sawHup, pollAfterHup>>
    /\ UNCHANGED <<ringVars, counterVars, otherVars>>

InitAsync ==
    /\ txAlive = TRUE
    /\ rxAlive = TRUE
    /\ chan = <<>>
    /\ hpc = "recv"
    /\ held = NoWaker
    /\ woken = {}
    /\ pollIn = FALSE
    /\ hup = FALSE
    /\ lastMask = {}
    /\ spins = 0
    /\ ppc = "idle"
    /\ npolls = 0
    /\ pollRes = "-"
    /\ sawHup = FALSE
    /\ pollAfterHup = FALSE

(* ------------------- the build: kernel version features ---------------- *)

\* The kernel versions whose headers the crate can be built against, as
\* major * 100 + minor.  The attribute assembler names PERF_SAMPLE_CGROUP
\* and PERF_SAMPLE_BRANCH_HW_INDEX without a feature gate, so the oldest
\* headers it compiles with are those of linux-5.7; of the later versions
\* these are the ones a feature gate of the modelled code names.
Versions == {507, 509, 511, 512, 513, 600, 601, 603, 608, 613}

\* #[cfg(feature = "linux-M.m")]: the features of all versions up to the
\* one built against are enabled.
Feature(v) == kver >= v

\* mask & bit > 0, for a bit that is a power of two
BitSet(mask, bit) == (mask \div bit) % 2 = 1

\* mask |= bit
BitOr(mask, bit) == IF BitSet(mask, bit) THEN mask ELSE mask + bit

\* Returned by the `unsupported!` macro: Err(ErrorKind::Unsupported)?
Unsupported == [err |-> "Unsupported"]

(* enum perf_event_read_format *)
PERF_FORMAT_TOTAL_TIME_ENABLED == 1
PERF_FORMAT_TOTAL_TIME_RUNNING == 2
PERF_FORMAT_ID == 4
PERF_FORMAT_GROUP == 8
PERF_FORMAT_LOST == 16

(* enum perf_event_sample_format *)
PERF_SAMPLE_IP == 1
PERF_SAMPLE_TID == 2
PERF_SAMPLE_TIME == 4
PERF_SAMPLE_ADDR == 8
PERF_SAMPLE_READ == 16
PERF_SAMPLE_CALLCHAIN == 32
PERF_SAMPLE_ID == 64
PERF_SAMPLE_CPU == 128
PERF_SAMPLE_PERIOD == 256
PERF_SAMPLE_STREAM_ID == 512
PERF_SAMPLE_RAW == 1024
PERF_SAMPLE_BRANCH_STACK == 2048
PERF_SAMPLE_REGS_USER == 4096
PERF_SAMPLE_STACK_USER == 8192
PERF_SAMPLE_WEIGHT == 16384
PERF_SAMPLE_DATA_SRC == 32768
PERF_SAMPLE_TRANSACTION == 131072
PERF_SAMPLE_REGS_INTR == 262144
PERF_SAMPLE_PHYS_ADDR == 524288
PERF_SAMPLE_AUX == 1048576
PERF_SAMPLE_CGROUP == 2097152
PERF_SAMPLE_DATA_PAGE_SIZE == 4194304
PERF_SAMPLE_CODE_PAGE_SIZE == 8388608
PERF_SAMPLE_WEIGHT_STRUCT == 16777216

(* enum perf_branch_sample_type *)
PERF_SAMPLE_BRANCH_USER == 1
PERF_SAMPLE_BRANCH_KERNEL == 2
PERF_SAMPLE_BRANCH_HV == 4
PERF_SAMPLE_BRANCH_ANY == 8
PERF_SAMPLE_BRANCH_ANY_CALL == 16
PERF_SAMPLE_BRANCH_ANY_RETURN == 32
PERF_SAMPLE_BRANCH_IND_CALL == 64
PERF_SAMPLE_BRANCH_ABORT_TX == 128
PERF_SAMPLE_BRANCH_IN_TX == 256
PERF_SAMPLE_BRANCH_NO_TX == 512
PERF_SAMPLE_BRANCH_COND == 1024
PERF_SAMPLE_BRANCH_CALL_STACK == 2048
PERF_SAMPLE_BRANCH_IND_JUMP == 4096
PERF_SAMPLE_BRANCH_CALL == 8192
PERF_SAMPLE_BRANCH_NO_FLAGS == 16384
PERF_SAMPLE_BRANCH_NO_CYCLES == 32768
PERF_SAMPLE_BRANCH_TYPE_SAVE == 65536
PERF_SAMPLE_BRANCH_HW_INDEX == 131072
PERF_SAMPLE_BRANCH_PRIV_SAVE == 262144
PERF_SAMPLE_BRANCH_COUNTERS == 524288

(* --------------------- events and Opts (config/mod.rs) ----------------- *)

\* The events the assembler can tell apart: one that every build
\* supports, Software::CgroupSwitch (since linux-5.13) and an event whose
\* config3 is not zero (since linux-6.3).
Events == {"Hardware", "CgroupSwitch", "RawConfig3"}

\* impl TryFrom<Software> for Event, impl TryFrom<Raw> for Event
EventTryInto(e) ==
    IF e = "CgroupSwitch" /\ ~Feature(513)
    THEN Unsupported
    ELSE [config3 |-> IF e = "RawConfig3" THEN 1 ELSE 0]

\* An Opts value is the set of its settings that differ from
\* Opts::default(): a bool field that is true, an Option field that is
\* Some, the variant chosen for an enum field.
SampleFormatOpts ==
    {"sample_format.stat", "sample_format.period", "sample_format.cgroup",
     "sample_format.call_chain", "sample_format.user_stack",
     "sample_format.data_addr", "sample_format.data_phys_addr",
     "sample_format.data_page_size", "sample_format.data_source",
     "sample_format.code_addr", "sample_format.code_page_size",
     "sample_format.user_regs", "sample_format.intr_regs",
     "sample_format.raw", "sample_format.lbr", "sample_format.aux",
     "sample_format.txn", "sample_format.weight.Full",
     "sample_format.weight.Vars"}

RecordIdFormatOpts ==
    {"record_id_format.id", "record_id_format.stream_id",
     "record_id_format.cpu", "record_id_format.task",
     "record_id_format.time"}

StatFormatOpts ==
    {"stat_format.id", "stat_format.time_enabled",
     "stat_format.time_running", "stat_format.lost_records",
     "stat_format.siblings"}

\* The fields of Lbr; they exist only inside sample_format.lbr = Some(..).
LbrOpts ==
    {"lbr.target_priv.user", "lbr.target_priv.kernel", "lbr.target_priv.hv",
     "lbr.branch_type.any", "lbr.branch_type.any_return",
     "lbr.branch_type.cond", "lbr.branch_type.ind_jump",
     "lbr.branch_type.call_stack", "lbr.branch_type.call",
     "lbr.branch_type.ind_call", "lbr.branch_type.any_call",
     "lbr.branch_type.in_tx", "lbr.branch_type.no_tx",
     "lbr.branch_type.abort_tx", "lbr.hw_index",
     "lbr.entry_format.flags", "lbr.entry_format.cycles",
     "lbr.entry_format.counter", "lbr.entry_format.branch_type",
     "lbr.entry_format.branch_priv"}

\* The fields of CallChain inside sample_format.call_chain = Some(..).
CallChainOpts == {"call_chain.exclude_user", "call_chain.exclude_kernel"}

ExtraRecordOpts ==
    {"extra_record.task", "extra_record.read", "extra_record.comm",
     "extra_record.mmap.code", "extra_record.mmap.data",
     "extra_record.mmap.ext", "extra_record.mmap.ext.UseBuildId",
     "extra_record.cgroup", "extra_record.ksymbol",
     "extra_record.bpf_event", "extra_record.text_poke",
     "extra_record.ctx_switch", "extra_record.namespaces"}

CountOpts ==
    {"exclude.user", "exclude.kernel", "exclude.hv", "exclude.host",
     "exclude.guest", "exclude.idle", "only_group", "pin_on_pmu",
     "inherit.NewChild", "inherit.NewThread", "on_execve.Enable",
     "on_execve.Remove", "enable", "sample_on.Count", "record_id_all",
     "wake_up.on.Bytes", "sigtrap_on_sample", "timer", "pause_aux"}

AllOpts ==
    CountOpts \cup StatFormatOpts \cup SampleFormatOpts \cup LbrOpts
    \cup CallChainOpts \cup RecordIdFormatOpts \cup ExtraRecordOpts

\* What the types of config/mod.rs allow: one variant per enum field, and
\* the fields of a nested struct only where the struct is present.
WellTyped(o) ==
    /\ o \subseteq AllOpts
    /\ ~({"inherit.NewChild", "inherit.NewThread"} \subseteq o)
    /\ ~({"on_execve.Enable", "on_execve.Remove"} \subseteq o)
    /\ ~({"sample_format.weight.Full", "sample_format.weight.Vars"}
           \subseteq o)
    /\ (o \cap LbrOpts # {} => "sample_format.lbr" \in o)
    /\ (o \cap CallChainOpts # {} => "sample_format.call_chain" \in o)
    /\ ("extra_record.mmap.ext.UseBuildId" \in o
          => "extra_record.mmap.ext" \in o)

(* ------------------ the attribute assembler (config/attr.rs) ----------- *)

\* One row per `when!` invocation: the Opts setting tested, the flag it
\* ORs into the mask and the feature that gates it (0: not gated).
Row(opt, flag, since) == [opt |-> opt, flag |-> flag, since |-> since]

\* StatFormat::as_read_format, in the order of the source
ReadFormatRows ==
    << Row("stat_format.id", PERF_FORMAT_ID, 0),
       Row("stat_format.time_enabled", PERF_FORMAT_TOTAL_TIME_ENABLED, 0),
       Row("stat_format.time_running", PERF_FORMAT_TOTAL_TIME_RUNNING, 0),
       Row("stat_format.lost_records", PERF_FORMAT_LOST, 600),
       Row("stat_format.siblings", PERF_FORMAT_GROUP, 0) >>

\* The sample format with two flags sharing one bit of sample_type.
SampleTypeRowsSharedBit ==
    << Row("sample_format.stat", PERF_SAMPLE_READ, 0),
       Row("sample_format.period", PERF_SAMPLE_PERIOD, 0),
       Row("sample_format.cgroup", PERF_SAMPLE_CGROUP, 0),
       Row("sample_format.user_stack", PERF_SAMPLE_STACK_USER, 0),
       Row("sample_format.call_chain", PERF_SAMPLE_CALLCHAIN, 0),
       Row("sample_format.data_addr", PERF_SAMPLE_ADDR, 0),
       Row("sample_format.data_phys_addr", PERF_SAMPLE_ADDR, 0),
       Row("sample_format.data_page_size", PERF_SAMPLE_DATA_PAGE_SIZE, 511),
       Row("sample_format.data_source", PERF_SAMPLE_DATA_SRC, 0),
       Row("sample_format.code_addr", PERF_SAMPLE_IP, 0),
       Row("sample_format.code_page_size", PERF_SAMPLE_CODE_PAGE_SIZE, 511),
       Row("sample_format.user_regs", PERF_SAMPLE_REGS_USER, 0),
       Row("sample_format.intr_regs", PERF_SAMPLE_REGS_INTR, 0),
       Row("sample_format.raw", PERF_SAMPLE_RAW, 0),
       Row("sample_format.lbr", PERF_SAMPLE_BRANCH_STACK, 0),
       Row("sample_format.aux", PERF_SAMPLE_AUX, 0),
       Row("sample_format.txn", PERF_SAMPLE_TRANSACTION, 0),
       Row("sample_format.weight.Full", PERF_SAMPLE_WEIGHT, 0),
       Row("sample_format.weight.Vars", PERF_SAMPLE_WEIGHT_STRUCT, 512),
       Row("record_id_format.id", PERF_SAMPLE_ID, 0),
       Row("record_id_format.stream_id", PERF_SAMPLE_STREAM_ID, 0),
       Row("record_id_format.cpu", PERF_SAMPLE_CPU, 0),
       Row("record_id_format.task", PERF_SAMPLE_TID, 0),
       Row("record_id_format.time", PERF_SAMPLE_TIME, 0) >>

\* attr.sample_type, in the order of the source
SampleTypeRows ==
    << Row("sample_format.stat", PERF_SAMPLE_READ, 0),
       Row("sample_format.period", PERF_SAMPLE_PERIOD, 0),
       Row("sample_format.cgroup", PERF_SAMPLE_CGROUP, 0),
       Row("sample_format.user_stack", PERF_SAMPLE_STACK_USER, 0),
       Row("sample_format.call_chain", PERF_SAMPLE_CALLCHAIN, 0),
       Row("sample_format.data_addr", PERF_SAMPLE_ADDR, 0),
       Row("sample_format.data_phys_addr", PERF_SAMPLE_PHYS_ADDR, 0),
       Row("sample_format.data_page_size", PERF_SAMPLE_DATA_PAGE_SIZE, 511),
       Row("sample_format.data_source", PERF_SAMPLE_DATA_SRC, 0),
       Row("sample_format.code_addr", PERF_SAMPLE_IP, 0),
       Row("sample_format.code_page_size", PERF_SAMPLE_CODE_PAGE_SIZE, 511),
       Row("sample_format.user_regs", PERF_SAMPLE_REGS_USER, 0),
       Row("sample_format.intr_regs", PERF_SAMPLE_REGS_INTR, 0),
       Row("sample_format.raw", PERF_SAMPLE_RAW, 0),
       Row("sample_format.lbr", PERF_SAMPLE_BRANCH_STACK, 0),
       Row("sample_format.aux", PERF_SAMPLE_AUX, 0),
       Row("sample_format.txn", PERF_SAMPLE_TRANSACTION, 0),
       Row("sample_format.weight.Full", PERF_SAMPLE_WEIGHT, 0),
       Row("sample_format.weight.Vars", PERF_SAMPLE_WEIGHT_STRUCT, 512),
       Row("record_id_format.id", PERF_SAMPLE_ID, 0),
       Row("record_id_format.stream_id", PERF_SAMPLE_STREAM_ID, 0),
       Row("record_id_format.cpu", PERF_SAMPLE_CPU, 0),
       Row("record_id_format.task", PERF_SAMPLE_TID, 0),
       Row("record_id_format.time", PERF_SAMPLE_TIME, 0) >>

\* TargetPriv::as_branch_sample_type and the flags ORed into
\* attr.branch_sample_type for an Lbr, in the order of the source
BranchRows ==
    << Row("lbr.target_priv.user", PERF_SAMPLE_BRANCH_USER, 0),
       Row("lbr.target_priv.kernel", PERF_SAMPLE_BRANCH_KERNEL, 0),
       Row("lbr.target_priv.hv", PERF_SAMPLE_BRANCH_HV, 0),
       Row("lbr.branch_type.any", PERF_SAMPLE_BRANCH_ANY, 0),
       Row("lbr.branch_type.any_return", PERF_SAMPLE_BRANCH_ANY_RETURN, 0),
       Row("lbr.branch_type.cond", PERF_SAMPLE_BRANCH_COND, 0),
       Row("lbr.branch_type.ind_jump", PERF_SAMPLE_BRANCH_IND_JUMP, 0),
       Row("lbr.branch_type.call_stack", PERF_SAMPLE_BRANCH_CALL_STACK, 0),
       Row("lbr.branch_type.call", PERF_SAMPLE_BRANCH_CALL, 0),
       Row("lbr.branch_type.any_call", PERF_SAMPLE_BRANCH_ANY_CALL, 0),
       Row("lbr.branch_type.ind_call", PERF_SAMPLE_BRANCH_IND_CALL, 0),
       Row("lbr.branch_type.in_tx", PERF_SAMPLE_BRANCH_IN_TX, 0),
       Row("lbr.branch_type.no_tx", PERF_SAMPLE_BRANCH_NO_TX, 0),
       Row("lbr.branch_type.abort_tx", PERF_SAMPLE_BRANCH_ABORT_TX, 0),
       Row("lbr.hw_index", PERF_SAMPLE_BRANCH_HW_INDEX, 0),
       Row("lbr.entry_format.counter", PERF_SAMPLE_BRANCH_COUNTERS, 608),
       Row("lbr.entry_format.branch_type", PERF_SAMPLE_BRANCH_TYPE_SAVE, 0),
       Row("lbr.entry_format.branch_priv", PERF_SAMPLE_BRANCH_PRIV_SAVE, 601)
    >>

\* The entry-format fields an Lbr requests by leaving a flag clear.
BranchNoRows ==
    << Row("lbr.entry_format.flags", PERF_SAMPLE_BRANCH_NO_FLAGS, 0),
       Row("lbr.entry_format.cycles", PERF_SAMPLE_BRANCH_NO_CYCLES, 0) >>

RECURSIVE OrRows(_, _, _, _, _)
\* val |= flag for every row from the i-th on whose setting is `on` in o
OrRows(rows, o, on, i, val) ==
    IF i > Len(rows) THEN val
    ELSE OrRows(rows, o, on, i + 1,
                IF (rows[i].opt \in o) = on
                THEN BitOr(val, rows[i].flag) ELSE val)

\* A row whose feature is disabled is compiled to unsupported!().
RowsUnsupported(rows, o) ==
    \E i \in 1..Len(rows) : rows[i].opt \in o /\ ~Feature(rows[i].since)

\* StatFormat::as_read_format
as_read_format(o) ==
    IF RowsUnsupported(ReadFormatRows, o) THEN Unsupported
    ELSE [val |-> OrRows(ReadFormatRows, o, TRUE, 1, 0)]

\* The single-bit options of perf_event_attr that `from` sets for o.
AttrBits(o) ==
    (IF "exclude.user" \in o THEN {"exclude_user"} ELSE {})
    \cup (IF "exclude.kernel" \in o THEN {"exclude_kernel"} ELSE {})
    \cup (IF "exclude.hv" \in o THEN {"exclude_hv"} ELSE {})
    \cup (IF "exclude.host" \in o THEN {"exclude_host"} ELSE {})
    \cup (IF "exclude.guest" \in o THEN {"exclude_guest"} ELSE {})
    \cup (IF "exclude.idle" \in o THEN {"exclude_idle"} ELSE {})
    \cup (IF "only_group" \in o THEN {"exclusive"} ELSE {})
    \cup (IF "pin_on_pmu" \in o THEN {"pinned"} ELSE {})
    \cup (IF "inherit.NewChild" \in o THEN {"inherit"} ELSE {})
    \cup (IF "inherit.NewThread" \in o
          THEN {"inherit", "inherit_thread"} ELSE {})
    \cup (IF "on_execve.Enable" \in o THEN {"enable_on_exec"} ELSE {})
    \cup (IF "on_execve.Remove" \in o THEN {"remove_on_exec"} ELSE {})
    \cup (IF "enable" \in o THEN {} ELSE {"disabled"})
    \cup (IF "sample_on.Count" \in o THEN {} ELSE {"freq"})
    \cup (IF "call_chain.exclude_user" \in o
          THEN {"exclude_callchain_user"} ELSE {})
    \cup (IF "call_chain.exclude_kernel" \in o
          THEN {"exclude_callchain_kernel"} ELSE {})
    \cup (IF "extra_record.task" \in o THEN {"task"} ELSE {})
    \cup (IF "extra_record.read" \in o THEN {"inherit_stat"} ELSE {})
    \cup (IF "extra_record.comm" \in o THEN {"comm"} ELSE {})
    \cup (IF "extra_record.mmap.code" \in o THEN {"mmap"} ELSE {})
    \cup (IF "extra_record.mmap.data" \in o THEN {"mmap_data"} ELSE {})
    \cup (IF "extra_record.mmap.ext" \in o THEN {"mmap", "mmap2"} ELSE {})
    \cup (IF "extra_record.mmap.ext.UseBuildId" \in o
          THEN {"build_id"} ELSE {})
    \cup (IF "extra_record.cgroup" \in o THEN {"cgroup"} ELSE {})
    \cup (IF "extra_record.ksymbol" \in o THEN {"ksymbol"} ELSE {})
    \cup (IF "extra_record.bpf_event" \in o THEN {"bpf_event"} ELSE {})
    \cup (IF "extra_record.text_poke" \in o THEN {"text_poke"} ELSE {})
    \cup (IF "extra_record.ctx_switch" \in o
          THEN {"context_switch"} ELSE {})
    \cup (IF "extra_record.namespaces" \in o THEN {"namespaces"} ELSE {})
    \cup (IF "record_id_all" \in o THEN {"sample_id_all"} ELSE {})
    \cup (IF "wake_up.on.Bytes" \in o THEN {"watermark"} ELSE {})
    \cup (IF "sigtrap_on_sample" \in o THEN {"sigtrap"} ELSE {})
    \cup (IF "timer" \in o THEN {"use_clockid"} ELSE {})
    \cup (IF "pause_aux" \in o THEN {"aux_start_paused"} ELSE {})

\* The single-bit options that are compiled to unsupported!() in this
\* build: the setting of Opts and the feature it needs.
GatedOpts ==
    << Row("inherit.NewThread", 0, 513),
       Row("on_execve.Remove", 0, 513),
       Row("extra_record.text_poke", 0, 509),
       Row("extra_record.mmap.ext.UseBuildId", 0, 512),
       Row("sigtrap_on_sample", 0, 513),
       Row("pause_aux", 0, 613) >>

\* attr.branch_sample_type for sample_format.lbr = Some(it)
LbrBranchSampleType(o) ==
    OrRows(BranchNoRows, o, FALSE, 1, OrRows(BranchRows, o, TRUE, 1, 0))

\* attr.sample_period, the word it shares with attr.sample_freq: the value
\* of opts.sample_on, whose default is SampleOn::Freq(0).
SampleOnVal(o) == IF "sample_on.Count" \in o THEN SamplePeriod ELSE 0

\* The assembler that passes options of a newer kernel on to the kernel.
fromUngated(event_cfg, o) ==
    [sample_type |-> OrRows(SampleTypeRows, o, TRUE, 1, 0),
     read_format |-> OrRows(ReadFormatRows, o, TRUE, 1, 0),
     branch_sample_type |->
         IF "sample_format.lbr" \in o THEN LbrBranchSampleType(o) ELSE 0,
     sample_period |-> SampleOnVal(o),
     bits |-> AttrBits(o)]

\* config::attr::from: the Attr for an event and an Opts, or Unsupported
from(event_cfg, o) ==
    IF \/ (~Feature(603) /\ event_cfg.config3 > 0)
       \/ RowsUnsupported(GatedOpts, o)
       \/ as_read_format(o) = Unsupported
       \/ RowsUnsupported(SampleTypeRows, o)
       \/ ("sample_format.lbr" \in o /\ RowsUnsupported(BranchRows, o))
    THEN Unsupported
    ELSE [sample_type |-> OrRows(SampleTypeRows, o, TRUE, 1, 0),
          read_format |-> as_read_format(o).val,
          branch_sample_type |->
              IF "sample_format.lbr" \in o
              THEN LbrBranchSampleType(o) ELSE 0,
          sample_period |-> SampleOnVal(o),
          bits |-> AttrBits(o)]

(* --------------- sibling options (config/sibling/mod.rs) --------------- *)

SiblingStatFormatOpts ==
    {"stat_format.id", "stat_format.time_enabled",
     "stat_format.time_running", "stat_format.lost_records"}

SiblingOpts ==
    SiblingStatFormatOpts
    \cup {"inherit.NewThread", "on_execve.Remove", "aux_output",
          "on_sample.aux.Pause", "on_sample.aux.Resume",
          "on_sample.sigtrap"}

SiblingWellTyped(o) ==
    /\ o \subseteq SiblingOpts
    /\ ~({"on_sample.aux.Pause", "on_sample.aux.Resume"} \subseteq o)

\* sibling::StatFormat::as_read_format: a sibling has no PERF_FORMAT_GROUP
SiblingReadFormatRows == SubSeq(ReadFormatRows, 1, 4)

sibling_as_read_format(o) ==
    IF RowsUnsupported(SiblingReadFormatRows, o) THEN Unsupported
    ELSE [val |-> OrRows(SiblingReadFormatRows, o, TRUE, 1, 0)]

\* The settings of sibling::Opts that need a feature of the build.
SiblingGatedOpts ==
    << Row("inherit.NewThread", 0, 513),
       Row("on_execve.Remove", 0, 513),
       Row("on_sample.sigtrap", 0, 513),
       Row("on_sample.aux.Pause", 0, 613),
       Row("on_sample.aux.Resume", 0, 613) >>

\* config::sibling::attr::from: the Attr of a sibling, or Unsupported
sibling_from(event_cfg, o) ==
    IF \/ (~Feature(603) /\ event_cfg.config3 > 0)
       \/ RowsUnsupported(SiblingGatedOpts, o)
       \/ sibling_as_read_format(o) = Unsupported
    THEN Unsupported
    ELSE [read_format |-> sibling_as_read_format(o).val]

(* ------------- inputs of the assembler and what it decodes to ---------- *)

RECURSIVE UpTo(_, _)
\* The subsets of S with at most k elements.
UpTo(S, k) ==
    IF k = 0 THEN {{}}
    ELSE LET P == UpTo(S, k - 1)
         IN P \cup {p \cup {x} : p \in P, x \in S}

\* A field of Lbr, CallChain or UseBuildId is set inside its Some(..).
Enclose(o) ==
    o \cup (IF o \cap LbrOpts # {} THEN {"sample_format.lbr"} ELSE {})
      \cup (IF o \cap CallChainOpts # {}
            THEN {"sample_format.call_chain"} ELSE {})
      \cup (IF "extra_record.mmap.ext.UseBuildId" \in o
            THEN {"extra_record.mmap.ext"} ELSE {})

\* The Opts values with at most MaxOpts settings changed from the default.
OptsValues ==
    {o \in {Enclose(t) : t \in UpTo(AllOpts, MaxOpts)} : WellTyped(o)}

\* The sibling::Opts values with at most MaxOpts settings changed.
SiblingOptsValues ==
    {o \in UpTo(SiblingOpts, MaxOpts) : SiblingWellTyped(o)}

\* The "Since `linux-M.m`" notes of config/mod.rs, config/sibling/mod.rs,
\* event/sw.rs and event/raw.rs that name a version newer than the oldest
\* build: the kernel version that introduced the option or event.
Since(x) ==
    CASE x = "extra_record.text_poke" -> 509
      [] x \in {"sample_format.data_page_size",
                "sample_format.code_page_size"} -> 511
      [] x \in {"sample_format.weight.Vars",
                "extra_record.mmap.ext.UseBuildId"} -> 512
      [] x \in {"inherit.NewThread", "on_execve.Remove",
                "sigtrap_on_sample", "on_sample.sigtrap",
                "CgroupSwitch"} -> 513
      [] x = "stat_format.lost_records" -> 600
      [] x = "lbr.entry_format.branch_priv" -> 601
      [] x = "RawConfig3" -> 603
      [] x = "lbr.entry_format.counter" -> 608
      [] x \in {"pause_aux", "on_sample.aux.Pause",
                "on_sample.aux.Resume"} -> 613
      [] OTHER -> 507

\* The fields Sample::from_ptr produces for a sample_type, named as the
\* SampleFormat and RecordIdFormat settings that request them.
SampleFields(sample_type) ==
    LET when(flag, field) ==
            IF BitSet(sample_type, flag) THEN {field} ELSE {}
        gated(since, flag, field) ==
            IF Feature(since) THEN when(flag, field) ELSE {}
    IN when(PERF_SAMPLE_IP, "sample_format.code_addr")
       \cup when(PERF_SAMPLE_TID, "record_id_format.task")
       \cup when(PERF_SAMPLE_TIME, "record_id_format.time")
       \cup when(PERF_SAMPLE_ADDR, "sample_format.data_addr")
       \cup when(PERF_SAMPLE_ID, "record_id_format.id")
       \cup when(PERF_SAMPLE_STREAM_ID, "record_id_format.stream_id")
       \cup when(PERF_SAMPLE_CPU, "record_id_format.cpu")
       \cup when(PERF_SAMPLE_PERIOD, "sample_format.period")
       \cup when(PERF_SAMPLE_READ, "sample_format.stat")
       \cup when(PERF_SAMPLE_CALLCHAIN, "sample_format.call_chain")
       \cup when(PERF_SAMPLE_RAW, "sample_format.raw")
       \cup when(PERF_SAMPLE_BRANCH_STACK, "sample_format.lbr")
       \cup when(PERF_SAMPLE_REGS_USER, "sample_format.user_regs")
       \cup when(PERF_SAMPLE_STACK_USER, "sample_format.user_stack")
       \cup (IF BitSet(sample_type, PERF_SAMPLE_WEIGHT)
             THEN {"sample_format.weight.Full"}
             ELSE gated(512, PERF_SAMPLE_WEIGHT_STRUCT,
                        "sample_format.weight.Vars"))
       \cup when(PERF_SAMPLE_DATA_SRC, "sample_format.data_source")
       \cup when(PERF_SAMPLE_TRANSACTION, "sample_format.txn")
       \cup when(PERF_SAMPLE_REGS_INTR, "sample_format.intr_regs")
       \cup gated(414, PERF_SAMPLE_PHYS_ADDR, "sample_format.data_phys_addr")
       \cup gated(507, PERF_SAMPLE_CGROUP, "sample_format.cgroup")
       \cup gated(511, PERF_SAMPLE_DATA_PAGE_SIZE,
                  "sample_format.data_page_size")
       \cup gated(511, PERF_SAMPLE_CODE_PAGE_SIZE,
                  "sample_format.code_page_size")
       \cup gated(505, PERF_SAMPLE_AUX, "sample_format.aux")

\* The fields Stat::from_ptr_offset produces for a read_format, named as
\* the StatFormat settings that request them.
StatFields(read_format) ==
    LET when(flag, field) ==
            IF BitSet(read_format, flag) THEN {field} ELSE {}
    IN when(PERF_FORMAT_TOTAL_TIME_ENABLED, "stat_format.time_enabled")
       \cup when(PERF_FORMAT_TOTAL_TIME_RUNNING, "stat_format.time_running")
       \cup when(PERF_FORMAT_ID, "stat_format.id")
       \cup (IF Feature(600)
             THEN when(PERF_FORMAT_LOST, "stat_format.lost_records") ELSE {})
       \cup when(PERF_FORMAT_GROUP, "stat_format.siblings")

\* The settings of Lbr a branch_sample_type stands for, by the meaning of
\* enum perf_branch_sample_type.
BranchFields(branch_sample_type) ==
    LET when(flag, field) ==
            IF BitSet(branch_sample_type, flag) THEN {field} ELSE {}
        unless(flag, field) ==
            IF BitSet(branch_sample_type, flag) THEN {} ELSE {field}
    IN when(PERF_SAMPLE_BRANCH_USER, "lbr.target_priv.user")
       \cup when(PERF_SAMPLE_BRANCH_KERNEL, "lbr.target_priv.kernel")
       \cup when(PERF_SAMPLE_BRANCH_HV, "lbr.target_priv.hv")
       \cup when(PERF_SAMPLE_BRANCH_ANY, "lbr.branch_type.any")
       \cup when(PERF_SAMPLE_BRANCH_ANY_CALL, "lbr.branch_type.any_call")
       \cup when(PERF_SAMPLE_BRANCH_ANY_RETURN, "lbr.branch_type.any_return")
       \cup when(PERF_SAMPLE_BRANCH_IND_CALL, "lbr.branch_type.ind_call")
       \cup when(PERF_SAMPLE_BRANCH_ABORT_TX, "lbr.branch_type.abort_tx")
       \cup when(PERF_SAMPLE_BRANCH_IN_TX, "lbr.branch_type.in_tx")
       \cup when(PERF_SAMPLE_BRANCH_NO_TX, "lbr.branch_type.no_tx")
       \cup when(PERF_SAMPLE_BRANCH_COND, "lbr.branch_type.cond")
       \cup when(PERF_SAMPLE_BRANCH_CALL_STACK, "lbr.branch_type.call_stack")
       \cup when(PERF_SAMPLE_BRANCH_IND_JUMP, "lbr.branch_type.ind_jump")
       \cup when(PERF_SAMPLE_BRANCH_CALL, "lbr.branch_type.call")
       \cup unless(PERF_SAMPLE_BRANCH_NO_FLAGS, "lbr.entry_format.flags")
       \cup unless(PERF_SAMPLE_BRANCH_NO_CYCLES, "lbr.entry_format.cycles")
       \cup when(PERF_SAMPLE_BRANCH_TYPE_SAVE, "lbr.entry_format.branch_type")
       \cup when(PERF_SAMPLE_BRANCH_HW_INDEX, "lbr.hw_index")
       \cup when(PERF_SAMPLE_BRANCH_PRIV_SAVE, "lbr.entry_format.branch_priv")
       \cup when(PERF_SAMPLE_BRANCH_COUNTERS, "lbr.entry_format.counter")

\* The flags an attribute's three bitmasks decode to.
DecodeFlags(a) ==
    SampleFields(a.sample_type) \cup StatFields(a.read_format)
    \cup (IF BitSet(a.sample_type, PERF_SAMPLE_BRANCH_STACK)
          THEN BranchFields(a.branch_sample_type) ELSE {})

\* The settings of an Opts that the three bitmasks carry.
FlagOpts ==
    SampleFormatOpts \cup RecordIdFormatOpts \cup StatFormatOpts
    \cup LbrOpts

(* ------------------ Stat: sizing the read buffer ----------------------- *)

\* size_of::<u64>()
U64 == 8

\* The sizing that counts the id of the leader only.
alloc_read_bufIdOnce(group_size, read_format) ==
    U64
    + (IF BitSet(read_format, PERF_FORMAT_TOTAL_TIME_ENABLED)
       THEN U64 ELSE 0)
    + (IF BitSet(read_format, PERF_FORMAT_TOTAL_TIME_RUNNING)
       THEN U64 ELSE 0)
    + (IF BitSet(read_format, PERF_FORMAT_GROUP)
       THEN group_size * U64 ELSE 0)
    + (IF BitSet(read_format, PERF_FORMAT_ID) THEN U64 ELSE 0)
    + (IF Feature(600) /\ BitSet(read_format, PERF_FORMAT_LOST)
       THEN group_size * U64 ELSE 0)

\* Stat::alloc_read_buf: the length the read buffer is resized to.  The
\* callers in count/mod.rs and count/group.rs name it Stat::read_buf_size.
alloc_read_buf(group_size, read_format) ==
    U64
    + (IF BitSet(read_format, PERF_FORMAT_TOTAL_TIME_ENABLED)
       THEN U64 ELSE 0)
    + (IF BitSet(read_format, PERF_FORMAT_TOTAL_TIME_RUNNING)
       THEN U64 ELSE 0)
    + (IF BitSet(read_format, PERF_FORMAT_GROUP)
       THEN group_size * U64 ELSE 0)
    + (IF BitSet(read_format, PERF_FORMAT_ID)
       THEN group_size * U64 ELSE 0)
    + (IF Feature(600) /\ BitSet(read_format, PERF_FORMAT_LOST)
       THEN group_size * U64 ELSE 0)

\* One use of the sizing, kept for the claims about it.
Sizing(group_size, read_format) ==
    [group_size |-> group_size, read_format |-> read_format,
     size |-> alloc_read_buf(group_size, read_format)]

(* ----------------- Counter::new and CounterGroup::add ------------------ *)

NoAttr == [err |-> "None"]

NoCounter == [exists |-> FALSE, read_format |-> 0, read_buf |-> 0]

\* Counter::new: assemble the attribute, open the event, size the buffer.
CounterNew(e, o, openOk) ==
    /\ ~leader.exists
    /\ newRet = "None"
    /\ event' = e
    /\ opts' = o
    /\ LET event_cfg == EventTryInto(e)
           a == IF event_cfg = Unsupported THEN Unsupported
                ELSE from(event_cfg, o)
       IN /\ attr' = a
          /\ IF a = Unsupported
             THEN /\ newRet' = "Unsupported"
                  /\ UNCHANGED <<leader, opens, sized>>
             ELSE /\ opens' = opens + 1
                  /\ IF openOk
                     THEN /\ newRet' = "Ok"
                          /\ leader' =
                               [exists |-> TRUE,
                                read_format |-> a.read_format,
                                read_buf |->
                                    alloc_read_buf(1, a.read_format)]
                          /\ sized' = {Sizing(1, a.read_format)}
                     ELSE /\ newRet' = "OpenError"
                          /\ UNCHANGED <<leader, sized>>
    /\ UNCHANGED <<group, siblings>>
    /\ UNCHANGED <<ringVars, counterVars, asyncVars, buildVars, auxVars>>
    /\ UNCHANGED <<parseVars, ctlVars, stat>>

\* CounterGroup::from: the Counter becomes the leader of a new group.
CounterGroupFrom ==
    /\ leader.exists
    /\ ~group
    /\ group' = TRUE
    /\ siblings' = 0
    /\ event' = "None"
    /\ opts' = {}
    /\ attr' = NoAttr
    /\ newRet' = "None"
    /\ sized' = {}
    /\ UNCHANGED <<leader, opens>>
    /\ UNCHANGED <<ringVars, counterVars, asyncVars, buildVars, auxVars>>
    /\ UNCHANGED <<parseVars, ctlVars, stat>>

\* The leader sized for its siblings only.
LeaderNewLenSiblingsOnly(len, leader_read_format) ==
    alloc_read_buf(len, leader_read_format)

\* Stat::read_buf_size(self.siblings.len() + 1, leader_read_format)
LeaderNewLen(len, leader_read_format) ==
    alloc_read_buf(len + 1, leader_read_format)

\* The leader's buffer left as Counter::new made it.
GrowReadBufNever(old, new_len) == old

\* if new_len > old.len() { mem::replace(old, vec![0; new_len]) }
GrowReadBuf(old, new_len) == IF new_len > old THEN new_len ELSE old

\* CounterGroupAdd with the sibling pushed before perf_event_open is
\* known to have succeeded.
CounterGroupAddPushFirst(e, o, openOk) ==
    /\ group
    /\ opens <= MaxSiblings
    /\ event' = e
    /\ opts' = o
    /\ LET event_cfg == EventTryInto(e)
           a == IF event_cfg = Unsupported THEN Unsupported
                ELSE sibling_from(event_cfg, o)
       IN /\ attr' = a
          /\ IF a = Unsupported
             THEN /\ newRet' = "Unsupported"
                  /\ UNCHANGED <<leader, siblings, opens, sized>>
             ELSE /\ opens' = opens + 1
                  /\ IF openOk
                     THEN /\ newRet' = "Ok"
                          /\ siblings' = siblings + 1
                          /\ leader' =
                               [leader EXCEPT !.read_buf =
                                   GrowReadBuf(@,
                                       LeaderNewLen(siblings + 1,
                                           leader.read_format))]
                          /\ sized' =
                               {Sizing(1, a.read_format),
                                Sizing(siblings + 2, leader.read_format)}
                     ELSE /\ newRet' = "OpenError"
                          /\ siblings' = siblings + 1
                          /\ UNCHANGED <<leader, sized>>
    /\ UNCHANGED group
    /\ UNCHANGED <<ringVars, counterVars, asyncVars, buildVars, auxVars>>
    /\ UNCHANGED <<parseVars, ctlVars, stat>>

\* CounterGroup::add: assemble the sibling's attribute, open it in the
\* leader's group, push it and grow the leader's read buffer.
CounterGroupAdd(e, o, openOk) ==
    /\ group
    /\ opens <= MaxSiblings
    /\ event' = e
    /\ opts' = o
    /\ LET event_cfg == EventTryInto(e)
           a == IF event_cfg = Unsupported THEN Unsupported
                ELSE sibling_from(event_cfg, o)
       IN /\ attr' = a
          /\ IF a = Unsupported
             THEN /\ newRet' = "Unsupported"
                  /\ UNCHANGED <<leader, siblings, opens, sized>>
             ELSE /\ opens' = opens + 1
                  /\ IF openOk
                     THEN /\ newRet' = "Ok"
                          /\ siblings' = siblings + 1
                          /\ leader' =
                               [leader EXCEPT !.read_buf =
                                   GrowReadBuf(@,
                                       LeaderNewLen(siblings + 1,
                                           leader.read_format))]
                          /\ sized' =
                               {Sizing(1, a.read_format),
                                Sizing(siblings + 2, leader.read_format)}
                     ELSE /\ newRet' = "OpenError"
                          /\ UNCHANGED <<leader, siblings, sized>>
    /\ UNCHANGED group
    /\ UNCHANGED <<ringVars, counterVars, asyncVars, buildVars, auxVars>>
    /\ UNCHANGED <<parseVars, ctlVars, stat>>

(* ------------------- Counter::stat (count/stat.rs) --------------------- *)

\* No statistics have been read.
NoStat == [err |-> "None"]

\* What read(2) on the perf file of the leader returns for read_format
\* and a group of nr events (struct read_format): value, times, id and
\* lost without PERF_FORMAT_GROUP; nr, times and an entry { value, id,
\* lost } per event with it.  time_enabled is 7, time_running 5, and
\* event i (0 is the leader) has value 100 + 10i, id 101 + 10i and lost
\* count 102 + 10i.
KernelRead(read_format, nr) ==
    LET n(flag) == IF BitSet(read_format, flag) THEN 1 ELSE 0
        times == (IF n(PERF_FORMAT_TOTAL_TIME_ENABLED) = 1 THEN <<7>> ELSE <<>>)
                 \o (IF n(PERF_FORMAT_TOTAL_TIME_RUNNING) = 1
                     THEN <<5>> ELSE <<>>)
        entry(i) == <<100 + 10 * i>>
                    \o (IF n(PERF_FORMAT_ID) = 1 THEN <<101 + 10 * i>> ELSE <<>>)
                    \o (IF n(PERF_FORMAT_LOST) = 1
                        THEN <<102 + 10 * i>> ELSE <<>>)
        e == 1 + n(PERF_FORMAT_ID) + n(PERF_FORMAT_LOST)
    IN IF BitSet(read_format, PERF_FORMAT_GROUP)
       THEN <<nr>> \o times
            \o [k \in 1..(nr * e) |-> entry((k - 1) \div e)[1 + ((k - 1) % e)]]
       ELSE <<100>> \o times \o Tail(entry(0))

\* from_ptr_offset with the siblings taken from the first entry on.
from_ptr_offsetLeaderAgain(buf, read_format) ==
    LET n(flag) == IF BitSet(read_format, flag) THEN 1 ELSE 0
        lost == IF Feature(600) THEN n(PERF_FORMAT_LOST) ELSE 0
        opt(c, p) == IF c = 1 THEN buf[p] ELSE -1
        next == 2 + n(PERF_FORMAT_TOTAL_TIME_ENABLED)
                  + n(PERF_FORMAT_TOTAL_TIME_RUNNING)
        e == 1 + n(PERF_FORMAT_ID) + lost
    IN IF ~BitSet(read_format, PERF_FORMAT_GROUP)
       THEN [count |-> buf[1],
             time_enabled |-> opt(n(PERF_FORMAT_TOTAL_TIME_ENABLED), 2),
             time_running |->
                 opt(n(PERF_FORMAT_TOTAL_TIME_RUNNING),
                     2 + n(PERF_FORMAT_TOTAL_TIME_ENABLED)),
             id |-> opt(n(PERF_FORMAT_ID), next),
             lost_records |-> opt(lost, next + n(PERF_FORMAT_ID)),
             siblings |-> <<>>]
       ELSE [count |-> buf[next],
             id |-> opt(n(PERF_FORMAT_ID), next + 1),
             lost_records |-> opt(lost, next + 1 + n(PERF_FORMAT_ID)),
             time_enabled |-> opt(n(PERF_FORMAT_TOTAL_TIME_ENABLED), 2),
             time_running |->
                 opt(n(PERF_FORMAT_TOTAL_TIME_RUNNING),
                     2 + n(PERF_FORMAT_TOTAL_TIME_ENABLED)),
             siblings |->
                 [i \in 1..(buf[1] - 1) |->
                     [count |-> buf[next + e * (i - 1)],
                      id |-> opt(n(PERF_FORMAT_ID), next + e * (i - 1) + 1),
                      lost_records |->
                          opt(lost, next + e * (i - 1) + 1 + n(PERF_FORMAT_ID))]]]

\* Stat::from_ptr_offset on the words of buf: every deref_offset reads
\* the word at the cursor and moves the cursor by one word; when!(flag)
\* does so if the flag is set and gives None (-1) otherwise;
\* PERF_FORMAT_LOST is looked at on builds for linux-6.0 and later.
from_ptr_offset(buf, read_format) ==
    LET n(flag) == IF BitSet(read_format, flag) THEN 1 ELSE 0
        lost == IF Feature(600) THEN n(PERF_FORMAT_LOST) ELSE 0
        opt(c, p) == IF c = 1 THEN buf[p] ELSE -1
        \* the cursor after the first word and the two times
        next == 2 + n(PERF_FORMAT_TOTAL_TIME_ENABLED)
                  + n(PERF_FORMAT_TOTAL_TIME_RUNNING)
        e == 1 + n(PERF_FORMAT_ID) + lost
    IN IF ~BitSet(read_format, PERF_FORMAT_GROUP)
       THEN [count |-> buf[1],
             time_enabled |-> opt(n(PERF_FORMAT_TOTAL_TIME_ENABLED), 2),
             time_running |->
                 opt(n(PERF_FORMAT_TOTAL_TIME_RUNNING),
                     2 + n(PERF_FORMAT_TOTAL_TIME_ENABLED)),
             id |-> opt(n(PERF_FORMAT_ID), next),
             lost_records |-> opt(lost, next + n(PERF_FORMAT_ID)),
             siblings |-> <<>>]
       ELSE [count |-> buf[next],
             id |-> opt(n(PERF_FORMAT_ID), next + 1),
             lost_records |-> opt(lost, next + 1 + n(PERF_FORMAT_ID)),
             time_enabled |-> opt(n(PERF_FORMAT_TOTAL_TIME_ENABLED), 2),
             time_running |->
                 opt(n(PERF_FORMAT_TOTAL_TIME_RUNNING),
                     2 + n(PERF_FORMAT_TOTAL_TIME_ENABLED)),
             siblings |->
                 [i \in 1..(buf[1] - 1) |->
                     [count |-> buf[next + e * i],
                      id |-> opt(n(PERF_FORMAT_ID), next + e * i + 1),
                      lost_records |->
                          opt(lost, next + e * i + 1 + n(PERF_FORMAT_ID))]]]

\* Counter::stat on the leader: read(2) into read_buf (ENOSPC when the
\* buffer is shorter than the kernel's read size), then Stat::from_ptr
\* with the read_format of the cached attribute.
CounterStat ==
    /\ leader.exists
    /\ LET buf == KernelRead(leader.read_format, 1 + siblings)
       IN stat' = IF leader.read_buf < 8 * Len(buf) THEN [err |-> "ENOSPC"]
                  ELSE from_ptr_offset(buf, leader.read_format)
    /\ UNCHANGED <<event, opts, attr, leader, group, siblings, opens, newRet,
                   sized>>
    /\ UNCHANGED <<ringVars, counterVars, asyncVars, buildVars, auxVars>>
    /\ UNCHANGED <<parseVars, ctlVars>>

\* Any version of the headers, built with the release profile.
InitBuild == kver \in Versions /\ overflow_checks = FALSE

InitGroup ==
    /\ event = "None"
    /\ opts = {}
    /\ attr = NoAttr
    /\ leader = NoCounter
    /\ group = FALSE
    /\ siblings = 0
    /\ opens = 0
    /\ newRet = "None"
    /\ sized = {}
    /\ stat = NoStat

(* --------------- the AUX ring (sample/auxiliary/rb.rs) ----------------- *)

NoAuxChunk == [kind |-> "NoChunk", new_tail |-> 0, bytes |-> <<>>]

\* Bytes of the AUX ring the tracer has not consumed.
AuxAvailable == (auxHead - auxTail) % AuxSize

\* The hardware tracer appends n bytes of trace at aux_head.  The kernel
\* keeps one byte of the ring free (CIRC_SPACE), so head never catches up
\* with tail; byte k of the trace is written as the number k.
AuxKernelWrite(n) ==
    /\ n <= AuxSize - 1 - AuxAvailable
    /\ auxHead + n <= MaxAuxBytes
    /\ auxHead' = auxHead + n
    /\ auxAlloc' = [i \in 0..(AuxSize - 1) |->
                      IF (i - auxHead) % AuxSize < n
                      THEN auxHead + ((i - auxHead) % AuxSize)
                      ELSE auxAlloc[i]]
    /\ UNCHANGED <<auxTail, auxChunk, auxPops>>
    /\ UNCHANGED <<ringVars, counterVars, asyncVars, buildVars, groupVars>>
    /\ UNCHANGED <<parseVars, ctlVars>>

\* The chunk length that ignores max_chunk_len.
AuxChunkLenIgnoreMax(len, max_chunk_len) == len

\* match max_chunk_len { Some(max) => len.min(max), None => len };
\* 0 stands for None.
AuxChunkLen(len, max_chunk_len) ==
    IF max_chunk_len = 0 THEN len
    ELSE IF len < max_chunk_len THEN len ELSE max_chunk_len

\* `d as u64` for an i64; u64 is scaled to UsizeBits bits.
AsU64(d) == IF d < 0 THEN 2^UsizeBits + d ELSE d

\* auxiliary::Rb::lending_pop.  For a chunk that crosses the ring end d
\* is negative and `hi_part_len = (chunk_len + d as u64)` adds the
\* two's complement of d to chunk_len: the u64 sum overflows, which
\* panics in a build with overflow checks and wraps to chunk_len + d in
\* one without.
AuxLendingPop(a, t, h, max_chunk_len) ==
    LET size == AuxSize
        hd == h % size
        len == IF t < hd THEN hd - t ELSE size + hd - t
        chunk_len == AuxChunkLen(len, max_chunk_len)
        new_tail == (t + chunk_len) % size
        d == size - (t + chunk_len)
        sum == chunk_len + AsU64(d)
        hi_part_len == sum % 2^UsizeBits
        lo_part_len == -d
    IN IF t = hd THEN NoAuxChunk
       ELSE IF d >= 0
       THEN [kind |-> "Borrowed", new_tail |-> new_tail,
             bytes |-> [k \in 1..chunk_len |-> a[t + k - 1]]]
       ELSE IF sum >= 2^UsizeBits /\ overflow_checks
       THEN [kind |-> "Panic", new_tail |-> new_tail, bytes |-> <<>>]
       ELSE [kind |-> "Owned", new_tail |-> new_tail,
             bytes |-> [k \in 1..chunk_len |->
                          IF k <= hi_part_len THEN a[t + k - 1]
                          ELSE a[k - hi_part_len - 1]],
             hi_part_len |-> hi_part_len,
             lo_part_len |-> lo_part_len,
             wrapped |-> sum >= 2^UsizeBits]

\* One call of lending_pop by the iterator; an owned chunk stores the new
\* tail before it is returned, a panic ends the iterator.
AuxPop(max_chunk_len) ==
    /\ auxChunk.kind = "NoChunk"
    /\ auxPops < MaxAuxPops
    /\ auxPops' = auxPops + 1
    /\ LET c == AuxLendingPop(auxAlloc, auxTail, auxHead, max_chunk_len)
       IN /\ auxChunk' = c
          /\ auxTail' = IF c.kind = "Owned" THEN c.new_tail ELSE auxTail
    /\ UNCHANGED <<auxAlloc, auxHead>>
    /\ UNCHANGED <<ringVars, counterVars, asyncVars, buildVars, groupVars>>
    /\ UNCHANGED <<parseVars, ctlVars>>

\* impl Drop for CowChunk, for a chunk of the AUX ring
AuxDropChunk ==
    /\ auxChunk.kind \in {"Borrowed", "Owned"}
    /\ auxChunk' = NoAuxChunk
    /\ auxTail' = IF auxChunk.kind = "Borrowed"
                  THEN auxChunk.new_tail ELSE auxTail
    /\ UNCHANGED <<auxAlloc, auxHead, auxPops>>
    /\ UNCHANGED <<ringVars, counterVars, asyncVars, buildVars, groupVars>>
    /\ UNCHANGED <<parseVars, ctlVars>>

InitAux ==
    /\ auxAlloc = [i \in 0..(AuxSize - 1) |-> -1]
    /\ auxTail = 0
    /\ auxHead = 0
    /\ auxChunk = NoAuxChunk
    /\ auxPops = 0

(* ------------ sample records and UnsafeParser (sample/record) ---------- *)

PERF_RECORD_SAMPLE == 9

\* A record type that no build of the library has a parser for.
UnknownRecordType == 22

(* enum perf_sample_regs_abi *)
PERF_SAMPLE_REGS_ABI_NONE == 0
PERF_SAMPLE_REGS_ABI_32 == 1
PERF_SAMPLE_REGS_ABI_64 == 2

\* The register-ABI tags a record can carry: the three of today's
\* kernels and one that a later kernel may add.
Abis ==
    {PERF_SAMPLE_REGS_ABI_NONE, PERF_SAMPLE_REGS_ABI_32,
     PERF_SAMPLE_REGS_ABI_64, PERF_SAMPLE_REGS_ABI_64 + 1}

\* Payload words of a record: addresses, counts, bit fields.
Values == {0, 3, 40}

Max(a, b) == IF a >= b THEN a ELSE b

Rep(k, v) == [i \in 1..k |-> v]

RECURSIVE Times(_, _)
\* k copies of a sequence, one after the other
Times(k, seq) == IF k <= 0 THEN <<>> ELSE seq \o Times(k - 1, seq)

\* No record has been written.
NoRecord == [ty |-> 0, body |-> <<>>]

\* perf_event_header::size: the header and the body, in bytes.  A record
\* is its type and its body as a sequence of u64 words.
Size(r) == U64 * (1 + Len(r.body))

\* The settings of Opts that decide the layout of a sample record.
LayoutOpts ==
    SampleFormatOpts \cup RecordIdFormatOpts \cup StatFormatOpts
    \cup {"lbr.hw_index", "lbr.entry_format.counter"}

\* UnsafeParser::from_attr: the masks of the attribute and the number of
\* registers sampled (the weight of sample_regs_user, sample_regs_intr).
from_attr(a, w) ==
    [sample_type |-> a.sample_type, read_format |-> a.read_format,
     branch_sample_type |-> a.branch_sample_type,
     user_regs |-> w, intr_regs |-> w]

\* No sampler has been opened.
NoParser ==
    from_attr([sample_type |-> 0, read_format |-> 0,
               branch_sample_type |-> 0], 0)

\* struct read_format as the kernel writes it for a group of nr events
KernelReadFormat(read_format, nr, val) ==
    LET when(flag) == IF BitSet(read_format, flag) THEN <<val>> ELSE <<>>
        times == when(PERF_FORMAT_TOTAL_TIME_ENABLED)
                 \o when(PERF_FORMAT_TOTAL_TIME_RUNNING)
        entry == <<val>> \o when(PERF_FORMAT_ID) \o when(PERF_FORMAT_LOST)
    IN IF BitSet(read_format, PERF_FORMAT_GROUP)
       THEN <<nr>> \o times \o Times(nr, entry)
       ELSE <<val>> \o times \o when(PERF_FORMAT_ID)
            \o when(PERF_FORMAT_LOST)

\* The body of a PERF_RECORD_SAMPLE as the kernel writes it for the masks
\* of p.  c gives the content: n is every count (call-chain entries,
\* branch entries, siblings, 8-byte units of raw, stack and AUX data), lbr
\* tells whether the PMU supplied a branch stack, abi is the register ABI
\* and val every other word.
KernelSample(p, c) ==
    LET when(flag, words) ==
            IF BitSet(p.sample_type, flag) THEN words ELSE <<>>
        branch(flag, words) ==
            IF BitSet(p.branch_sample_type, flag) THEN words ELSE <<>>
        regs(count) ==
            <<c.abi>> \o (IF c.abi # PERF_SAMPLE_REGS_ABI_NONE
                          THEN Rep(count, c.val) ELSE <<>>)
    IN when(PERF_SAMPLE_IP, <<c.val>>)
       \o when(PERF_SAMPLE_TID, <<c.val>>)
       \o when(PERF_SAMPLE_TIME, <<c.val>>)
       \o when(PERF_SAMPLE_ADDR, <<c.val>>)
       \o when(PERF_SAMPLE_ID, <<c.val>>)
       \o when(PERF_SAMPLE_STREAM_ID, <<c.val>>)
       \o when(PERF_SAMPLE_CPU, <<c.val>>)
       \o when(PERF_SAMPLE_PERIOD, <<c.val>>)
       \o when(PERF_SAMPLE_READ,
               KernelReadFormat(p.read_format, c.n + 1, c.val))
       \o when(PERF_SAMPLE_CALLCHAIN, <<c.n>> \o Rep(c.n, c.val))
       \* u32 size, char data[size]: size + 4 is a multiple of 8
       \o when(PERF_SAMPLE_RAW, <<U64 * c.n + 4>> \o Rep(c.n, c.val))
       \o when(PERF_SAMPLE_BRANCH_STACK,
               IF c.lbr
               THEN <<c.n>>
                    \o branch(PERF_SAMPLE_BRANCH_HW_INDEX, <<c.val>>)
                    \o Rep(3 * c.n, c.val)
                    \o branch(PERF_SAMPLE_BRANCH_COUNTERS, Rep(c.n, c.val))
               ELSE <<0>>)
       \o when(PERF_SAMPLE_REGS_USER, regs(p.user_regs))
       \o when(PERF_SAMPLE_STACK_USER,
               IF c.n = 0 THEN <<0>>
               ELSE <<U64 * c.n>> \o Rep(c.n, c.val) \o <<U64 * c.n>>)
       \o when(PERF_SAMPLE_WEIGHT, <<c.val>>)
       \o when(PERF_SAMPLE_WEIGHT_STRUCT, <<c.val>>)
       \o when(PERF_SAMPLE_DATA_SRC, <<c.val>>)
       \o when(PERF_SAMPLE_TRANSACTION, <<c.val>>)
       \o when(PERF_SAMPLE_REGS_INTR, regs(p.intr_regs))
       \o when(PERF_SAMPLE_PHYS_ADDR, <<c.val>>)
       \o when(PERF_SAMPLE_CGROUP, <<c.val>>)
       \o when(PERF_SAMPLE_DATA_PAGE_SIZE, <<c.val>>)
       \o when(PERF_SAMPLE_CODE_PAGE_SIZE, <<c.val>>)
       \o when(PERF_SAMPLE_AUX, <<U64 * c.n>> \o Rep(c.n, c.val))

\* The parser's cursor: pos is ptr as an offset into the record, hi the
\* end of the highest byte read so far, fields the fields that got a
\* value, panic whether the parser panicked.
Cursor(pos, hi) == [pos |-> pos, hi |-> hi, fields |-> {}, panic |-> FALSE]

\* *(*ptr as *const T) for a T of n bytes: the word at the cursor, or
\* some other value (junk) when the read is not of a word of the record.
Peek(r, junk, s, n) ==
    IF s.pos >= U64 /\ s.pos % U64 = 0 /\ s.pos + n <= Size(r)
    THEN r.body[s.pos \div U64] ELSE junk

\* The bytes pos .. pos + n - 1 are read.
Touch(s, pos, n) == IF n > 0 THEN [s EXCEPT !.hi = Max(@, pos + n)] ELSE s

\* ptr.add(n)
Add(s, n) == [s EXCEPT !.pos = @ + n]

\* deref_offset::<T> of n bytes, the value left aside
Deref(s, n) == Add(Touch(s, s.pos, n), n)

Got(s, field) == [s EXCEPT !.fields = @ \cup {field}]

\* when!(flag, u64) and the other fields of one word
Word(p, flag, field, s) ==
    IF s.panic \/ ~BitSet(p.sample_type, flag) THEN s
    ELSE Got(Deref(s, U64), field)

\* when!("linux-M.m", flag, u64)
GatedWord(p, since, flag, field, s) ==
    IF Feature(since) THEN Word(p, flag, field, s) ELSE s

\* Stat::from_ptr_offset, called for PERF_SAMPLE_READ
ParseStat(p, r, junk, s) ==
    IF s.panic \/ ~BitSet(p.sample_type, PERF_SAMPLE_READ) THEN s
    ELSE LET when(flag) == IF BitSet(p.read_format, flag) THEN 1 ELSE 0
             times == when(PERF_FORMAT_TOTAL_TIME_ENABLED)
                      + when(PERF_FORMAT_TOTAL_TIME_RUNNING)
             entry == 1 + when(PERF_FORMAT_ID)
                      + (IF Feature(600) THEN when(PERF_FORMAT_LOST) ELSE 0)
             nr == Peek(r, junk, s, U64)
         IN Got(IF BitSet(p.read_format, PERF_FORMAT_GROUP)
                THEN Deref(s, U64 * (1 + times + entry * Max(nr, 1)))
                ELSE Deref(s, U64 * (times + entry)),
                "sample_format.stat")

ParseCallChain(p, r, junk, s) ==
    IF s.panic \/ ~BitSet(p.sample_type, PERF_SAMPLE_CALLCHAIN) THEN s
    ELSE LET len == Peek(r, junk, s, U64)
         IN Got(Deref(Deref(s, U64), len * U64), "sample_format.call_chain")

\* The record starts at an address that is a multiple of 8.
ParseRaw(p, r, junk, s) ==
    IF s.panic \/ ~BitSet(p.sample_type, PERF_SAMPLE_RAW) THEN s
    ELSE LET len == Peek(r, junk, s, 4)
             t == Deref(Deref(s, 4), len)
         IN Got([t EXCEPT !.pos = ((@ + U64 - 1) \div U64) * U64],
                "sample_format.raw")

\* size_of::<Layout>()
LayoutSize == 3 * U64

\* parse_lbr: None for no entries; hw_index; the entries; their counters.
\* The cursor moves past the entries only where counters follow them.
parse_lbr(p, r, junk, s) ==
    IF s.panic \/ ~BitSet(p.sample_type, PERF_SAMPLE_BRANCH_STACK) THEN s
    ELSE LET len == Peek(r, junk, s, U64)
             s1 == Deref(s, U64)
             s2 == IF Feature(507)
                      /\ BitSet(p.branch_sample_type,
                                PERF_SAMPLE_BRANCH_HW_INDEX)
                   THEN Deref(s1, U64) ELSE s1
             s3 == Touch(s2, s2.pos, len * LayoutSize)
             has_counters ==
                 Feature(608) /\ BitSet(p.branch_sample_type,
                                        PERF_SAMPLE_BRANCH_COUNTERS)
         IN IF len = 0 THEN s1
            ELSE Got(IF has_counters
                     THEN Deref(Add(s3, len * LayoutSize), len * U64)
                     ELSE s3,
                     "sample_format.lbr")

\* parse_regs: None for ABI_NONE, a panic for an ABI that is neither
\* ABI_32 nor ABI_64
parse_regs(p, r, junk, flag, field, len, s) ==
    IF s.panic \/ ~BitSet(p.sample_type, flag) THEN s
    ELSE LET abi == Peek(r, junk, s, U64)
             s1 == Deref(s, U64)
         IN IF abi = PERF_SAMPLE_REGS_ABI_NONE THEN s1
            ELSE IF abi \notin {PERF_SAMPLE_REGS_ABI_32,
                                PERF_SAMPLE_REGS_ABI_64}
            THEN [Add(s1, len * U64) EXCEPT !.panic = TRUE]
            ELSE Got(Deref(s1, len * U64), field)

\* bytes[..dyn_len] panics if dyn_len is larger than the slice.
ParseUserStack(p, r, junk, s) ==
    IF s.panic \/ ~BitSet(p.sample_type, PERF_SAMPLE_STACK_USER) THEN s
    ELSE LET len == Peek(r, junk, s, U64)
             s1 == Deref(s, U64)
             s2 == Add(s1, len)
             dyn_len == IF len > 0 THEN Peek(r, junk, s2, U64) ELSE 0
             s3 == IF len > 0 THEN Deref(s2, U64) ELSE s2
         IN IF dyn_len > len THEN [s3 EXCEPT !.panic = TRUE]
            ELSE Got(Touch(s3, s1.pos, dyn_len), "sample_format.user_stack")

ParseWeight(p, s) ==
    IF s.panic THEN s
    ELSE IF BitSet(p.sample_type, PERF_SAMPLE_WEIGHT)
    THEN Got(Deref(s, U64), "sample_format.weight.Full")
    ELSE IF Feature(512) /\ BitSet(p.sample_type, PERF_SAMPLE_WEIGHT_STRUCT)
    THEN Got(Deref(s, U64), "sample_format.weight.Vars")
    ELSE s

\* The snapshot of the AUX area is the last field: ptr stays before it.
ParseAux(p, r, junk, s) ==
    IF s.panic \/ ~Feature(505) \/ ~BitSet(p.sample_type, PERF_SAMPLE_AUX)
    THEN s
    ELSE LET len == Peek(r, junk, s, U64)
             s1 == Deref(s, U64)
         IN Got(Touch(s1, s1.pos, len), "sample_format.aux")

\* Sample::from_ptr, with ptr just after the header
SampleFromPtr(p, r, junk) ==
    LET a == Word(p, PERF_SAMPLE_IP, "sample_format.code_addr",
                  Cursor(U64, 6))
        b == Word(p, PERF_SAMPLE_TID, "record_id_format.task", a)
        c == Word(p, PERF_SAMPLE_TIME, "record_id_format.time", b)
        d == Word(p, PERF_SAMPLE_ADDR, "sample_format.data_addr", c)
        e == Word(p, PERF_SAMPLE_ID, "record_id_format.id", d)
        f == Word(p, PERF_SAMPLE_STREAM_ID, "record_id_format.stream_id", e)
        g == Word(p, PERF_SAMPLE_CPU, "record_id_format.cpu", f)
        h == Word(p, PERF_SAMPLE_PERIOD, "sample_format.period", g)
        i == ParseStat(p, r, junk, h)
        j == ParseCallChain(p, r, junk, i)
        k == ParseRaw(p, r, junk, j)
        l == parse_lbr(p, r, junk, k)
        m == parse_regs(p, r, junk, PERF_SAMPLE_REGS_USER,
                        "sample_format.user_regs", p.user_regs, l)
        n == ParseUserStack(p, r, junk, m)
        o == ParseWeight(p, n)
        q == Word(p, PERF_SAMPLE_DATA_SRC, "sample_format.data_source", o)
        t == Word(p, PERF_SAMPLE_TRANSACTION, "sample_format.txn", q)
        u == parse_regs(p, r, junk, PERF_SAMPLE_REGS_INTR,
                        "sample_format.intr_regs", p.intr_regs, t)
        v == GatedWord(p, 414, PERF_SAMPLE_PHYS_ADDR,
                       "sample_format.data_phys_addr", u)
        w == GatedWord(p, 507, PERF_SAMPLE_CGROUP, "sample_format.cgroup", v)
        x == GatedWord(p, 511, PERF_SAMPLE_DATA_PAGE_SIZE,
                       "sample_format.data_page_size", w)
        y == GatedWord(p, 511, PERF_SAMPLE_CODE_PAGE_SIZE,
                       "sample_format.code_page_size", x)
    IN ParseAux(p, r, junk, y)

\* No record has been parsed.
NotParsed == [kind |-> "None"]

\* UnsafeParser::parse: the header is read (type and misc, size skipped)
\* and the record type selects the parser; a type without one gives
\* Record::Unknown(bytes.to_vec()).
UnsafeParserParse(p, r, junk) ==
    IF r.ty = PERF_RECORD_SAMPLE
    THEN LET s == SampleFromPtr(p, r, junk)
         IN [kind |-> IF s.panic THEN "Panic" ELSE "Sample",
             pos |-> s.pos, hi |-> s.hi, fields |-> s.fields]
    ELSE [kind |-> "Unknown", pos |-> U64, hi |-> Size(r), fields |-> {}]

\* Sampler::parser: the parser of a sampler opened with the Opts o.
SamplerParser(o, w) ==
    /\ from([config3 |-> 0], o) # Unsupported
    /\ parser' = from_attr(from([config3 |-> 0], o), w)
    /\ record' = NoRecord
    /\ parsed' = NotParsed
    /\ UNCHANGED <<ringVars, counterVars, asyncVars, buildVars, groupVars,
                   auxVars, ctlVars>>

\* The kernel writes a sample for the event of the parser.
KernelOutputSample(c) ==
    /\ parser # NoParser
    /\ record' = [ty |-> PERF_RECORD_SAMPLE, body |-> KernelSample(parser, c)]
    /\ parsed' = NotParsed
    /\ UNCHANGED parser
    /\ UNCHANGED <<ringVars, counterVars, asyncVars, buildVars, groupVars,
                   auxVars, ctlVars>>

\* A kernel newer than the library writes a record of a new type.
KernelOutputUnknown(n, val) ==
    /\ parser # NoParser
    /\ record' = [ty |-> UnknownRecordType, body |-> Rep(n, val)]
    /\ parsed' = NotParsed
    /\ UNCHANGED parser
    /\ UNCHANGED <<ringVars, counterVars, asyncVars, buildVars, groupVars,
                   auxVars, ctlVars>>

\* The closure of a record iterator parses the record it is lent.
Parse(junk) ==
    /\ record # NoRecord
    /\ parsed = NotParsed
    /\ parsed' = UnsafeParserParse(parser, record, junk)
    /\ UNCHANGED <<parser, record>>
    /\ UNCHANGED <<ringVars, counterVars, asyncVars, buildVars, groupVars,
                   auxVars, ctlVars>>

InitParse ==
    /\ parser = NoParser
    /\ record = NoRecord
    /\ parsed = NotParsed

\* The Opts of the samplers whose records are parsed: at most MaxFields
\* settings that decide the layout of a sample.
ParserOptsValues ==
    {o \in {Enclose(t) : t \in UpTo(LayoutOpts, MaxFields)} : WellTyped(o)}

(* --------- records with a variable-length field before sample_id ------- *)

\* The record types whose parser skips a variable-length field and
\* realigns before sample_id.
TrailerKinds == {"Comm", "Mmap", "Mmap2", "Cgroup", "Ksymbol", "TextPoke"}

\* The record-relative offset of the variable-length field: the header
\* and the fixed fields that from_ptr reads with deref_offset before it.
\*   Comm     header, u32 pid, tid
\*   Mmap     header, u32 pid, tid, u64 addr, len, pgoff
\*   Mmap2    as Mmap, then 24 bytes (device or build id), u32 prot, flags
\*   Cgroup   header, u64 id
\*   Ksymbol  header, u64 addr, u32 len, u16 ksym_type, u16 flags
\*   TextPoke header, u64 addr, u16 old_len, u16 new_len
VarFieldOffset(kind) ==
    CASE kind = "Comm" -> HeaderSize + 8
      [] kind = "Mmap" -> HeaderSize + 8 + 24
      [] kind = "Mmap2" -> HeaderSize + 8 + 24 + 24 + 8
      [] kind = "Cgroup" -> HeaderSize + 8
      [] kind = "Ksymbol" -> HeaderSize + 8 + 4 + 2 + 2
      [] kind = "TextPoke" -> HeaderSize + 8 + 2 + 2

\* Where the kernel puts sample_id: it pads the variable-length field
\* with zero bytes until the record offset is a multiple of u64.
KernelTrailerOffset(kind, n) ==
    U64 * ((VarFieldOffset(kind) + n + U64 - 1) \div U64)

\* The addresses (modulo 8) a chunk can start at.  A borrowed chunk is
\* the ring (page aligned) plus the tail, which the kernel keeps a
\* multiple of 8; an owned one is a Vec<u8>, allocated with the alignment
\* of u8.
ChunkBases(owned) == IF owned THEN 0..(U64 - 1) ELSE {0}

\* `ptr = ptr.add(len); ptr = ptr.add(ptr.align_offset(align_of::<u64>()))`
\* in the from_ptr of the five record types, for a chunk at address base:
\* the pointer after the variable-length field is rounded up to an
\* address that is a multiple of 8.  The result is record-relative.
TrailerFromPtr(base, kind, n) ==
    LET ptr == base + VarFieldOffset(kind) + n
    IN ptr + ((U64 - (ptr % U64)) % U64) - base

PERF_RECORD_KSYMBOL_FLAGS_UNREGISTER == 1

\* `if flags & PERF_RECORD_KSYMBOL_FLAGS_UNREGISTER > 0 { State::Reg }
\*  else { State::Unreg }` in Ksymbol::from_ptr
KsymbolState(flags) ==
    IF BitSet(flags, PERF_RECORD_KSYMBOL_FLAGS_UNREGISTER)
    THEN "Reg" ELSE "Unreg"

\* The kernel writes a record of the kind with a variable-length field
\* of n bytes (a string with its NUL, or the old and new bytes of a text
\* poke) for an event with sample_id_all, and the iterator lends it as a
\* borrowed chunk or as an owned copy at base.  A Ksymbol record has any
\* flags, the others none.
KernelOutputRecord(kind, n, owned, base) ==
    /\ kind = "TextPoke" => Feature(509)
    /\ kind # "TextPoke" => n >= 1
    /\ base \in ChunkBases(owned)
    /\ \E flags \in IF kind = "Ksymbol" THEN 0..3 ELSE {0} :
          record' = [kind |-> kind, var |-> n, owned |-> owned,
                     base |-> base, flags |-> flags]
    /\ parsed' = NotParsed
    /\ UNCHANGED parser
    /\ UNCHANGED <<ringVars, counterVars, asyncVars, buildVars, groupVars,
                   auxVars, ctlVars>>

\* UnsafeParser::parse on the chunk of such a record, sample_id_all set:
\* pos is where RecordId::from_ptr starts reading.
ParseRecord ==
    /\ "kind" \in DOMAIN record
    /\ record.kind \in TrailerKinds
    /\ parsed = NotParsed
    /\ parsed' = [kind |-> record.kind,
                  pos |-> TrailerFromPtr(record.base, record.kind,
                                         record.var),
                  state |-> IF record.kind = "Ksymbol"
                            THEN KsymbolState(record.flags) ELSE "-"]
    /\ UNCHANGED <<parser, record>>
    /\ UNCHANGED <<ringVars, counterVars, asyncVars, buildVars, groupVars,
                   auxVars, ctlVars>>

(* ------------------------ PERF_RECORD_NAMESPACES ----------------------- *)

NR_NAMESPACES == 7

\* The body of a PERF_RECORD_NAMESPACES as the kernel writes it, in u64
\* words: pid and tid, nr_namespaces, { dev, inode } per namespace, then
\* sample_id (one word here).  Every word has its own value: namespace i
\* has dev val + 10 + 2i and inode val + 11 + 2i.
KernelNamespaces(val) ==
    <<val + 1, NR_NAMESPACES>>
    \o [k \in 1..(2 * NR_NAMESPACES) |-> val + 9 + k]
    \o <<val + 2>>

\* Namespaces::from_ptr on the words of body: pid and tid are one word,
\* `deref_offset::<[Layout; NR_NAMESPACES]>` reads the array at the cursor
\* and moves the cursor past it; pos is the cursor handed to
\* RecordId::from_ptr, in bytes from the start of the record.
NamespacesFromPtr(body) ==
    LET task == 1
        nss == task + 1
        next == nss + 2 * NR_NAMESPACES
    IN [kind |-> "Namespaces",
        task |-> body[task],
        nss |-> [i \in 0..(NR_NAMESPACES - 1) |->
                   [dev |-> body[nss + 2 * i],
                    inode |-> body[nss + 2 * i + 1]]],
        pos |-> HeaderSize + U64 * (next - 1)]

\* The kernel writes a PERF_RECORD_NAMESPACES for an event with
\* sample_id_all.
KernelOutputNamespaces(val) ==
    /\ record' = [kind |-> "Namespaces", body |-> KernelNamespaces(val)]
    /\ parsed' = NotParsed
    /\ UNCHANGED parser
    /\ UNCHANGED <<ringVars, counterVars, asyncVars, buildVars, groupVars,
                   auxVars, ctlVars>>

\* UnsafeParser::parse on the chunk of a PERF_RECORD_NAMESPACES.
ParseNamespaces ==
    /\ "kind" \in DOMAIN record
    /\ record.kind = "Namespaces"
    /\ parsed = NotParsed
    /\ parsed' = NamespacesFromPtr(record.body)
    /\ UNCHANGED <<parser, record>>
    /\ UNCHANGED <<ringVars, counterVars, asyncVars, buildVars, groupVars,
                   auxVars, ctlVars>>

(* ----------- Counter and Sampler: operations on the perf file ---------- *)

PERF_TYPE_RAW == 4

PERF_TYPE_BREAKPOINT == 5

ENOSPC == 28

\* The EventConfig that Breakpoint { ty: R(_1) | W(_8) | X, .. } and
\* Raw { config3: 0 | 3, .. } convert to; bp_type is R = 1, W = 2, X = 4.
EventConfigs ==
    {[ty |-> PERF_TYPE_BREAKPOINT, config |-> 0, config1 |-> 0,
      config2 |-> b[2], config3 |-> 0, bp_type |-> b[1]] :
        b \in {<<1, 1>>, <<2, 8>>, <<4, 0>>}}
    \cup {[ty |-> PERF_TYPE_RAW, config |-> 7, config1 |-> 1, config2 |-> 2,
           config3 |-> c, bp_type |-> 0] : c \in {0, 3}}

\* No counter has been created.
NotOpened == [type_ |-> -1]

NoIoctl == [op |-> "-", arg |-> 0]

\* The fields of perf_event_attr that hold the event.
EventFields == {"type_", "config", "config1", "config2", "config3", "bp_type"}

\* Counter::new for a counter that is sampled: the attribute built by
\* config::attr::from is kept in Counter::attr; the event starts enabled
\* if Opts::enable is set.
CounterOpen(ev, o) ==
    /\ cached = NotOpened
    /\ from(ev, o) # Unsupported
    /\ cached' = [type_ |-> ev.ty, config |-> ev.config,
                  config1 |-> ev.config1, config2 |-> ev.config2,
                  config3 |-> ev.config3, bp_type |-> ev.bp_type,
                  sample_type |-> from(ev, o).sample_type,
                  read_format |-> from(ev, o).read_format,
                  branch_sample_type |-> from(ev, o).branch_sample_type,
                  bits |-> from(ev, o).bits]
    /\ enabled' = ("enable" \in o)
    /\ event_limit' = 0
    /\ evcount' = 0
    /\ nsamples' = 0
    /\ sig' = "-"
    /\ ctlRet' = [call |-> "new", ret |-> "Ok"]
    /\ UNCHANGED <<nioctls, lastIoctl>>
    /\ UNCHANGED <<ringVars, counterVars, asyncVars, buildVars, groupVars,
                   auxVars, parseVars>>

\* ioctl_arg / ioctl_argp on the perf file and what perf_ioctl does for
\* the operation when it succeeds: ENABLE and DISABLE switch the event,
\* REFRESH adds its argument to the overflows left and enables the event,
\* RESET clears the event count, the other operations leave the three
\* alone.
ioctl_arg(op, arg, ok) ==
    /\ nioctls < MaxIoctls
    /\ nioctls' = nioctls + 1
    /\ lastIoctl' = [op |-> op, arg |-> arg]
    /\ enabled' = IF ok /\ op \in {"ENABLE", "REFRESH"} THEN TRUE
                  ELSE IF ok /\ op = "DISABLE" THEN FALSE ELSE enabled
    /\ event_limit' = IF ok /\ op = "REFRESH" THEN event_limit + arg
                      ELSE event_limit
    /\ nsamples' = IF ok /\ op = "REFRESH" THEN 0 ELSE nsamples
    /\ evcount' = IF ok /\ op = "RESET" THEN 0 ELSE evcount
    /\ UNCHANGED sig

\* switch_to that rebuilds the attribute from the event alone.
SwitchToRebuilt(ev, ok) ==
    /\ cached # NotOpened
    /\ cached' = [type_ |-> ev.ty, config |-> ev.config,
                  config1 |-> ev.config1, config2 |-> ev.config2,
                  config3 |-> ev.config3, bp_type |-> ev.bp_type,
                  sample_type |-> 0, read_format |-> 0,
                  branch_sample_type |-> 0, bits |-> {}]
    /\ ioctl_arg("MODIFY_ATTRS", 0, ok)
    /\ ctlRet' = [call |-> "switch_to", was |-> cached.type_,
                  ret |-> IF ok THEN "Ok" ELSE "Err"]
    /\ UNCHANGED <<ringVars, counterVars, asyncVars, buildVars, groupVars,
                   auxVars, parseVars>>

\* Counter::switch_to (linux-4.17): the event fields of the cached
\* attribute are overwritten (config3 on builds for linux-6.3 and later
\* only), then the attribute is passed to PERF_EVENT_IOC_MODIFY_ATTRIBUTES;
\* the fields stay overwritten when the ioctl fails.
SwitchTo(ev, ok) ==
    /\ cached # NotOpened
    /\ cached' = [cached EXCEPT
                    !.type_ = ev.ty,
                    !.config = ev.config,
                    !.config1 = ev.config1,
                    !.config2 = ev.config2,
                    !.config3 = IF Feature(603) THEN ev.config3 ELSE @,
                    !.bp_type = ev.bp_type]
    /\ ioctl_arg("MODIFY_ATTRS", 0, ok)
    /\ ctlRet' = [call |-> "switch_to", was |-> cached.type_,
                  ret |-> IF ok THEN "Ok" ELSE "Err"]
    /\ UNCHANGED <<ringVars, counterVars, asyncVars, buildVars, groupVars,
                   auxVars, parseVars>>

\* PERF_EVENT_IOC_QUERY_BPF for a buffer of ids_len ids on a tracepoint
\* with total attached programs (ids 1 .. total): prog_cnt is total, the
\* ids that fit are copied and the other slots zeroed; the call succeeds
\* when only the count is asked for (ids_len = 0), when nothing is
\* attached or when all ids fit, and fails with ENOSPC otherwise.
KernelQueryBpf(ids_len, total) ==
    [ret |-> IF ids_len = 0 \/ total = 0 \/ total <= ids_len
             THEN 0 ELSE ENOSPC,
     prog_cnt |-> total,
     ids |-> [k \in 1..ids_len |-> IF k <= total THEN k ELSE 0]]

\* Counter::query_bpf (linux-4.16); fail is an error other than ENOSPC.
\* buf[2..2 + prog_cnt] panics when prog_cnt is larger than buf_len.
\* lost = -1 stands for None.
QueryBpf(buf_len, total, fail) ==
    /\ cached # NotOpened
    /\ ioctl_arg("QUERY_BPF", 0, ~fail)
    /\ LET k == KernelQueryBpf(buf_len, total)
       IN ctlRet' =
            [call |-> "query_bpf", buf_len |-> buf_len, total |-> total,
             errno |-> IF fail THEN -1 ELSE k.ret,
             ret |-> IF fail THEN "Err"
                     ELSE IF k.ret = 0 /\ k.prog_cnt > buf_len THEN "Panic"
                     ELSE "Ok",
             ids |-> IF fail \/ (k.ret = 0 /\ k.prog_cnt > buf_len) THEN <<>>
                     ELSE IF k.ret = 0 THEN SubSeq(k.ids, 1, k.prog_cnt)
                     ELSE k.ids,
             lost |-> IF ~fail /\ k.ret = ENOSPC
                      THEN k.prog_cnt - buf_len ELSE -1]
    /\ UNCHANGED cached
    /\ UNCHANGED <<ringVars, counterVars, asyncVars, buildVars, groupVars,
                   auxVars, parseVars>>

\* with_ftrace_filter issuing the operation of clear_count.
WithFtraceFilterReset(ok) ==
    /\ cached # NotOpened
    /\ ioctl_arg("RESET", 0, ok)
    /\ ctlRet' = [call |-> "with_ftrace_filter",
                  ret |-> IF ok THEN "Ok" ELSE "Err"]
    /\ UNCHANGED cached
    /\ UNCHANGED <<ringVars, counterVars, asyncVars, buildVars, groupVars,
                   auxVars, parseVars>>

\* Counter::with_ftrace_filter
WithFtraceFilter(ok) ==
    /\ cached # NotOpened
    /\ ioctl_arg("SET_FILTER", 0, ok)
    /\ ctlRet' = [call |-> "with_ftrace_filter",
                  ret |-> IF ok THEN "Ok" ELSE "Err"]
    /\ UNCHANGED cached
    /\ UNCHANGED <<ringVars, counterVars, asyncVars, buildVars, groupVars,
                   auxVars, parseVars>>

\* Counter::disable
Disable ==
    /\ cached # NotOpened
    /\ ioctl_arg("DISABLE", 0, TRUE)
    /\ ctlRet' = [call |-> "disable", ret |-> "Ok"]
    /\ UNCHANGED cached
    /\ UNCHANGED <<ringVars, counterVars, asyncVars, buildVars, groupVars,
                   auxVars, parseVars>>

\* enable_counter_with issuing PERF_EVENT_IOC_ENABLE.
EnableCounterWithEnable(max_samples) ==
    /\ cached # NotOpened
    /\ ioctl_arg("ENABLE", 0, "inherit" \notin cached.bits)
    /\ ctlRet' = [call |-> "enable_counter_with", n |-> max_samples,
                  was |-> [enabled |-> enabled, left |-> event_limit],
                  ret |-> IF "inherit" \in cached.bits THEN "Err" ELSE "Ok"]
    /\ UNCHANGED cached
    /\ UNCHANGED <<ringVars, counterVars, asyncVars, buildVars, groupVars,
                   auxVars, parseVars>>

\* Sampler::enable_counter_with: PERF_EVENT_IOC_REFRESH with max_samples;
\* the kernel refuses it (EINVAL) for an inherited event.  `was` keeps
\* the state of the event at the call.
EnableCounterWith(max_samples) ==
    /\ cached # NotOpened
    /\ ioctl_arg("REFRESH", max_samples, "inherit" \notin cached.bits)
    /\ ctlRet' = [call |-> "enable_counter_with", n |-> max_samples,
                  was |-> [enabled |-> enabled, left |-> event_limit],
                  ret |-> IF "inherit" \in cached.bits THEN "Err" ELSE "Ok"]
    /\ UNCHANGED cached
    /\ UNCHANGED <<ringVars, counterVars, asyncVars, buildVars, groupVars,
                   auxVars, parseVars>>

\* The counter of an enabled event overflows: a sample is written to the
\* ring and the file marked readable as for any record; where overflows
\* were being counted down and this was the last, the event is disabled
\* and the I/O signal carries POLL_HUP, otherwise it carries POLL_IN.
KernelOverflow(len, wake) ==
    /\ cached # NotOpened
    /\ enabled
    /\ WriteRecord(len)
    /\ pollIn' = (pollIn \/ wake)
    /\ evcount' = evcount + 1
    /\ nsamples' = nsamples + 1
    /\ event_limit' = IF event_limit > 0 THEN event_limit - 1 ELSE 0
    /\ enabled' = (event_limit # 1)
    /\ sig' = IF event_limit = 1 THEN "POLL_HUP" ELSE "POLL_IN"
    /\ UNCHANGED <<cached, nioctls, lastIoctl, ctlRet>>
    /\ UNCHANGED <<txAlive, rxAlive, chan, hpc, held, woken, hup, lastMask,
                   spins, ppc, npolls, pollRes, sawHup, pollAfterHup>>
    /\ UNCHANGED <<counterVars, buildVars, groupVars, auxVars, parseVars>>

\* Breakpoint events: the type with its length in bytes (Type::X has
\* none) and the address.
Breakpoints ==
    {[ty |-> t, len |-> l, addr |-> a] :
        t \in {"R", "W", "Rw"}, l \in {1, 8}, a \in {16, 4096}}
    \cup {[ty |-> "X", len |-> 0, addr |-> a] : a \in {16, 4096}}

\* impl TryFrom<Breakpoint> for Event: bp_type is HW_BREAKPOINT_R = 1,
\* _W = 2, _RW = 3 or _X = 4, config2 the length (0 for X), and config,
\* config1 and config3 are 0.
BreakpointTryInto(bp) ==
    [ty |-> PERF_TYPE_BREAKPOINT,
     config |-> 0,
     config1 |-> 0,
     config2 |-> IF bp.ty = "X" THEN 0 ELSE bp.len,
     config3 |-> 0,
     bp_type |-> CASE bp.ty = "R" -> 1
                   [] bp.ty = "W" -> 2
                   [] bp.ty = "Rw" -> 3
                   [] bp.ty = "X" -> 4]

\* `event.try_into()` on a Breakpoint, the first step of Counter::new.
EventTryIntoBreakpoint(bp) ==
    /\ cached = NotOpened
    /\ ctlRet' = [call |-> "try_into", event |-> bp,
                  cfg |-> BreakpointTryInto(bp), ret |-> "Ok"]
    /\ UNCHANGED <<cached, nioctls, lastIoctl, enabled, event_limit, evcount,
                   nsamples, sig>>
    /\ UNCHANGED <<ringVars, counterVars, asyncVars, buildVars, groupVars,
                   auxVars, parseVars>>

InitCtl ==
    /\ cached = NotOpened
    /\ nioctls = 0
    /\ lastIoctl = NoIoctl
    /\ ctlRet = [call |-> "-", ret |-> "-"]
    /\ enabled = FALSE
    /\ event_limit = 0
    /\ evcount = 0
    /\ nsamples = 0
    /\ sig = "-"

(* ------------------------- the data ring: claims ----------------------- *)

\* The k-th chunk returned is the k-th record written, byte for byte.
DeliveredInOrder ==
    /\ Len(delivered) <= Len(written)
    /\ \A k \in 1..Len(delivered) : delivered[k] = written[k]

\* C1 as stated: with one iterator and at most RingSize unread bytes
\* (RingSize included), the chunks returned are the records written, in
\* order, and lending_pop returns None only when every record was returned.
C1_AsStated ==
    /\ DeliveredInOrder
    /\ popRet[1] = "None" => Len(delivered) = Len(written)

\* C1 amended: the same, for unread sizes strictly below RingSize; a ring
\* holding exactly RingSize unread bytes reads as empty.
C1_Amended ==
    /\ DeliveredInOrder
    /\ (popRet[1] = "None" /\ Unread < RingSize)
          => Len(delivered) = Len(written)
    /\ (popRet[1] = "None" /\ Unread = RingSize)
          => Len(delivered) < Len(written)

C1_Witness ==
    /\ Len(delivered) >= 3
    /\ popRet[1] = "None"
    /\ Unread = 0
    /\ \E k \in 1..Len(delivered) : Len(delivered[k]) > HeaderSize

\* C2: a borrowed chunk stores nothing to data_tail at the pop nor while
\* it is alive and stores the advanced tail once, with release ordering,
\* at its drop; an owned chunk stores the advanced tail, with release
\* ordering, in the pop and nothing at its drop.
C2_StoreDiscipline ==
    [][\A i \in Iters :
         /\ (chunk[i] = NoChunk /\ chunk'[i].kind = "Borrowed")
               => stores'[i] = stores[i]
         /\ (chunk[i] = NoChunk /\ chunk'[i].kind = "Owned")
               => /\ stores'[i] = stores[i] + 1
                  /\ lastStore' = [val |-> chunk'[i].new_tail,
                                   ord |-> "Release", at |-> "pop", by |-> i]
                  /\ tail' = chunk'[i].new_tail
         /\ (chunk[i] # NoChunk /\ chunk'[i] = chunk[i])
               => stores'[i] = stores[i]
         /\ (chunk[i].kind = "Borrowed" /\ chunk'[i] = NoChunk)
               => /\ stores'[i] = stores[i] + 1
                  /\ lastStore' = [val |-> chunk[i].new_tail,
                                   ord |-> "Release", at |-> "drop", by |-> i]
         /\ (chunk[i].kind = "Owned" /\ chunk'[i] = NoChunk)
               => /\ stores'[i] = stores[i]
                  /\ lastStore' = lastStore
                  /\ tail' = tail
      ]_vars

C2_Witness ==
    /\ chunk[1] = NoChunk
    /\ stores[1] >= 2
    /\ lastStore.at = "pop"
    /\ \E k \in 1..Len(delivered) : Len(delivered[k]) > 0
    /\ tail # 0

\* C3 as stated: while a borrowed chunk covering [t, t + s) is alive,
\* data_tail is still t and no byte of the chunk has been overwritten,
\* whatever the kernel and the iterators of the Sampler do.
C3_BorrowedProtected ==
    \A i \in Iters :
        chunk[i].kind = "Borrowed"
           => /\ tail = chunk[i].tail
              /\ AsBytes(chunk[i]) = chunk[i].bytes

\* The ring offsets a live chunk was cut from.
Covers(c) ==
    IF c = NoChunk THEN {} ELSE {(c.tail + k) % RingSize : k \in 0..(c.len - 1)}

\* C29: the tail has a single logical consumer: whatever the iterators
\* obtained from one Sampler do, no record is delivered twice (the k-th
\* chunk delivered is the k-th record written), two live chunks never
\* cover the same ring bytes, and a store to the tail advances it over
\* unread bytes only, never backwards.
C29_SingleConsumer ==
    [][/\ Len(delivered') <= Len(written')
       /\ \A k \in 1..Len(delivered') : delivered'[k] = written'[k]
       /\ \A i, j \in Iters :
             i # j => Covers(chunk'[i]) \cap Covers(chunk'[j]) = {}
       /\ tail' # tail => (tail' - tail) % RingSize <= Unread]_vars

\* C4: the step that drops a borrowed chunk popped at t with size s
\* leaves (t + s) mod RingSize in data_tail, stored with release ordering,
\* and the kernel's next computation of the unread bytes uses that value.
C4_DropPublishes ==
    [][\A i \in Iters :
         (chunk[i].kind = "Borrowed" /\ chunk'[i] = NoChunk)
            => /\ tail' = (chunk[i].tail + chunk[i].len) % RingSize
               /\ lastStore'.val = tail'
               /\ lastStore'.ord = "Release"
               /\ Unread' = (head' - (chunk[i].tail + chunk[i].len)) % RingSize
      ]_vars

C4_Witness ==
    /\ lastStore.at = "drop"
    /\ tail = lastStore.val
    /\ tail # 0
    /\ chunk[1] = NoChunk
    /\ Unread > 0

\* C6: a chunk returned for a record that crosses the ring end has the
\* record's length and holds the bytes at [tail, RingSize) followed by the
\* bytes at [0, tail + size - RingSize): the record as the kernel wrote it.
C6_WrappedChunk ==
    [][(chunk[1] = NoChunk /\ chunk'[1].kind = "Owned")
          => LET c == chunk'[1]
                 w == written[Len(delivered')]
                 s == Len(w)
             IN /\ tail + s > RingSize
                /\ c.len = s
                /\ Len(c.bytes) = s
                /\ \A k \in 1..s :
                      c.bytes[k] = IF k <= RingSize - tail
                                   THEN alloc[tail + k - 1]
                                   ELSE alloc[k - (RingSize - tail) - 1]
                /\ c.bytes = w
      ]_vars

C6_Witness ==
    /\ chunk[1].kind = "Owned"
    /\ chunk[1].tail + chunk[1].len > RingSize
    /\ chunk[1].tail + HeaderSize <= RingSize
    /\ chunk[1].bytes = written[Len(delivered)]

\* C7: at every tail position the record length lending_pop uses is the
\* u16 made of the ring bytes at (tail + 6) mod RingSize and
\* (tail + 7) mod RingSize, also when the header crosses the ring end.
C7_LenAtWrappedOffset ==
    /\ \A t \in 0..(RingSize - 1) :
          ChunkLen(alloc, t) =
              U16(alloc[(t + 6) % RingSize], alloc[(t + 7) % RingSize])
    /\ chunk[1] # NoChunk => chunk[1].len = Len(written[Len(delivered)])

C7_Witness ==
    /\ chunk[1] # NoChunk
    /\ RingSize - chunk[1].tail <= 7
    /\ chunk[1].len = Len(written[Len(delivered)])
    /\ chunk[1].len >= HeaderSize

(* ---------------------- Counter and Sampler: claims -------------------- *)

\* C5: at most one Sampler of a Counter is alive at any time, and a
\* Counter::sampler call made while one is alive returns AlreadyExists
\* without calling mmap.
C5_OneSampler ==
    /\ [](samplers <= 1)
    /\ [][(samplers >= 1 /\ calls' = calls + 1)
             => /\ samplerRet' = "AlreadyExists"
                /\ mmaps' = mmaps
                /\ samplers' = samplers
                /\ strong' = strong]_vars

C5_Witness ==
    /\ samplers = 1
    /\ strong = 2
    /\ samplerRet = "AlreadyExists"
    /\ mmaps >= 1

\* (1 + 2^exp) * page_size is not representable in usize; the product is
\* compared after dividing so that it is never formed.
NotRepresentable(exp) == 1 + 2^exp > UsizeMax \div PageSize

\* C17: for every exp for which (1 + 2^exp) * page_size is not
\* representable in usize, Counter::sampler(exp) returns an error and
\* mmap is not called.
C17_OverflowBeforeMmap ==
    [][\A exp \in 0..MaxExp, mmapOk \in BOOLEAN :
         (NotRepresentable(exp) /\ CounterSampler(exp, mmapOk))
         => (samplerRet' \in {"Overflow", "AlreadyExists"}
             /\ mmaps' = mmaps)]_vars

\* A call was refused for the size of its arena after an earlier call had
\* mapped one.
C17_Witness ==
    /\ samplerRet = "Overflow"
    /\ calls >= 2
    /\ mmaps = 1

(* -------------------- asynchronous iterator: claims -------------------- *)

\* C8: once the helper thread has taken the EPOLLHUP arm, every poll
\* started afterwards that finds the ring empty returns Ready(None).
C8_HupTerminates ==
    [][(sawHup /\ npolls' = npolls + 1
          /\ LendingPop(alloc, tail, head) = NoChunk)
         => pollRes' = "None"]_vars

C8_Witness ==
    /\ sawHup
    /\ pollAfterHup
    /\ pollRes = "None"
    /\ popRet[1] = "None"

\* C9 as stated: whenever epoll_wait returns a mask that contains EPOLLIN
\* or EPOLLHUP, the next thing the helper thread does is wake the waker
\* it holds.
C9_WakesOnEveryEvent ==
    [][(hpc = "epoll" /\ (hpc' # hpc \/ spins' # spins)
          /\ lastMask' \cap {EPOLLIN, EPOLLHUP} # {})
         => hpc' \in {"wake_in", "wake_hup"}]_vars

\* C10 as stated: after the asynchronous iterator is dropped the helper
\* thread eventually returns.
C10_HelperReturns == (~txAlive) ~> (hpc = "done")

(* ------------------ read buffer and counter group: claims -------------- *)

\* The size section 4.3 of the specification gives for read_format R and
\* n members.
C13_StatedSize(n, R) ==
    8 + (IF BitSet(R, PERF_FORMAT_TOTAL_TIME_ENABLED) THEN 8 ELSE 0)
      + (IF BitSet(R, PERF_FORMAT_TOTAL_TIME_RUNNING) THEN 8 ELSE 0)
      + (IF BitSet(R, PERF_FORMAT_GROUP)
         THEN n * (8 + (IF BitSet(R, PERF_FORMAT_ID) THEN 8 ELSE 0)
                     + (IF BitSet(R, PERF_FORMAT_LOST) THEN 8 ELSE 0))
         ELSE 8 * (1 + (IF BitSet(R, PERF_FORMAT_ID) THEN 1 ELSE 0)
                     + (IF BitSet(R, PERF_FORMAT_LOST) THEN 1 ELSE 0)))

\* C13 as stated: for every read_format R and member count n >= 1 the
\* computed read-buffer size is 8 + 8[time_enabled] + 8[time_running]
\* + (group ? n(8 + 8[id] + 8[lost]) : 8(1 + [id] + [lost])).
C13_AsStated ==
    \A s \in sized : s.size = C13_StatedSize(s.group_size, s.read_format)

\* C13 amended: without PERF_FORMAT_GROUP the last term is
\* n(8[id] + 8[lost]): the leading 8 bytes already hold the value, and id
\* and lost are counted once per member whether or not group is set.
C13_Amended ==
    \A s \in sized :
        s.size = 8
          + (IF BitSet(s.read_format, PERF_FORMAT_TOTAL_TIME_ENABLED)
             THEN 8 ELSE 0)
          + (IF BitSet(s.read_format, PERF_FORMAT_TOTAL_TIME_RUNNING)
             THEN 8 ELSE 0)
          + (IF BitSet(s.read_format, PERF_FORMAT_GROUP)
             THEN s.group_size
                    * (8 + (IF BitSet(s.read_format, PERF_FORMAT_ID)
                            THEN 8 ELSE 0)
                         + (IF BitSet(s.read_format, PERF_FORMAT_LOST)
                            THEN 8 ELSE 0))
             ELSE s.group_size
                    * ((IF BitSet(s.read_format, PERF_FORMAT_ID)
                        THEN 8 ELSE 0)
                       + (IF BitSet(s.read_format, PERF_FORMAT_LOST)
                          THEN 8 ELSE 0)))

\* A leader without PERF_FORMAT_GROUP but with id and lost was sized for
\* three members.
C13_Witness ==
    \E s \in sized :
        /\ s.group_size = 3
        /\ ~BitSet(s.read_format, PERF_FORMAT_GROUP)
        /\ BitSet(s.read_format, PERF_FORMAT_ID)
        /\ BitSet(s.read_format, PERF_FORMAT_LOST)

\* What read(2) returns for a group of n members (struct read_format with
\* PERF_FORMAT_GROUP): nr, the times, then value, id and lost per member.
GroupReadSize(n, R) ==
    8 + (IF BitSet(R, PERF_FORMAT_TOTAL_TIME_ENABLED) THEN 8 ELSE 0)
      + (IF BitSet(R, PERF_FORMAT_TOTAL_TIME_RUNNING) THEN 8 ELSE 0)
      + n * (8 + (IF BitSet(R, PERF_FORMAT_ID) THEN 8 ELSE 0)
               + (IF BitSet(R, PERF_FORMAT_LOST) THEN 8 ELSE 0))

\* C14: across any sequence of CounterGroup::add calls the leader's read
\* buffer never gets shorter, and after each successful add with
\* PERF_FORMAT_GROUP set it is at least as long as a group read of
\* 1 + siblings members.
C14_LeaderBufferGrows ==
    [][/\ leader.exists => leader'.read_buf >= leader.read_buf
       /\ (/\ group
           /\ siblings' = siblings + 1
           /\ BitSet(leader'.read_format, PERF_FORMAT_GROUP))
          => leader'.read_buf
               >= GroupReadSize(1 + siblings', leader'.read_format)]_vars

\* Two siblings were added to a leader that reads the whole group.
C14_Witness ==
    /\ group
    /\ siblings >= 2
    /\ newRet = "Ok"
    /\ BitSet(leader.read_format, PERF_FORMAT_GROUP)
    /\ BitSet(leader.read_format, PERF_FORMAT_LOST)

\* C15: with a leader whose read format is group + id + time_enabled +
\* time_running, after k >= 1 successful adds the leader's read buffer is
\* exactly 8 + 2*8 + (k + 1)*16 bytes long.
C15_ExactGroupSize ==
    (/\ group
     /\ siblings >= 1
     /\ leader.read_format =
          PERF_FORMAT_GROUP + PERF_FORMAT_ID
          + PERF_FORMAT_TOTAL_TIME_ENABLED + PERF_FORMAT_TOTAL_TIME_RUNNING)
    => leader.read_buf = 8 + 2 * 8 + (siblings + 1) * 16

\* Such a leader after its second sibling.
C15_Witness ==
    /\ group
    /\ siblings = 2
    /\ leader.read_format =
         PERF_FORMAT_GROUP + PERF_FORMAT_ID
         + PERF_FORMAT_TOTAL_TIME_ENABLED + PERF_FORMAT_TOTAL_TIME_RUNNING
    /\ leader.read_buf = 72

(* ------------------- the attribute assembler: claims ------------------- *)

\* The event or a setting of the call was introduced by a kernel newer
\* than the one the crate is built against.
NeedsNewer(e, o) == Since(e) > kver \/ \E x \in o : Since(x) > kver

C19_RemoveOnExecWithSigtrap ==
    ("bits" \in DOMAIN attr /\ "remove_on_exec" \in attr.bits)
        => "sigtrap" \in attr.bits

\* C20: for every Opts the assembler accepts, the flags that sample_type,
\* read_format and branch_sample_type decode to are exactly the flags
\* enabled in the Opts.
C20_DecodeRecoversFlags ==
    "sample_type" \in DOMAIN attr => DecodeFlags(attr) = opts \cap FlagOpts

\* An Lbr with one entry-format flag was assembled and decoded.
C20_Witness ==
    /\ "sample_type" \in DOMAIN attr
    /\ opts = {"sample_format.lbr", "lbr.entry_format.cycles"}
    /\ DecodeFlags(attr) = opts

(* --------------------------- AUX ring: claims -------------------------- *)

\* C16: for the AUX ring, with available = (head - tail) mod R > 0,
\* lending_pop returns a chunk whose length is min(available,
\* max_chunk_len) when a max is given and available otherwise, and the
\* tail advances by exactly that length modulo R: the chunk carries the
\* new tail, an owned chunk has stored it and a borrowed one stores it
\* when it is dropped.
C16_AuxChunkLength ==
    [][/\ \A max \in 0..MaxAuxChunk :
            (AuxAvailable > 0 /\ AuxPop(max))
            => /\ auxChunk'.kind \in {"Borrowed", "Owned"}
               /\ Len(auxChunk'.bytes) =
                    IF max # 0 /\ max < AuxAvailable
                    THEN max ELSE AuxAvailable
               /\ auxChunk'.new_tail =
                    (auxTail + Len(auxChunk'.bytes)) % AuxSize
               /\ (auxChunk'.kind = "Owned"
                     => auxTail' = auxChunk'.new_tail)
       /\ AuxDropChunk => auxTail' = auxChunk.new_tail]_vars

\* A chunk cut to max_chunk_len that wraps around the end of the ring.
C16_Witness ==
    /\ auxChunk.kind = "Owned"
    /\ Len(auxChunk.bytes) = MaxAuxChunk
    /\ AuxAvailable > 0
    /\ auxTail < MaxAuxChunk

\* C30: polling the async iterator never blocks the polling thread: every
\* poll returns Ready or Pending without waiting for the helper thread to
\* take a waker out of the channel.
C30_PollNeverBlocks == ppc # "blocked" /\ pollRes # "Blocked"

(* ----------------------------- parser: claims ------------------------ *)

\* C11: parsing a record terminates without reading a byte at or beyond
\* offset `size` of the record, and a sample gets a value for every field
\* whose bit of sample_type is set.
C11_ParserTotal ==
    parsed # NotParsed
        => /\ parsed.hi <= Size(record)
           /\ (parsed.kind = "Sample"
                 => SampleFields(parser.sample_type) \subseteq parsed.fields)

\* C12: parsing a record returns a record and never panics, whatever
\* record type, register ABI or other discriminant the record carries.
C12_NeverPanics == parsed # NotParsed => parsed.kind \in {"Sample", "Unknown"}

\* C28: after the branch stack of a sample is decoded the cursor stands
\* just after the last branch entry (after the per-entry counters where
\* they are present), so that every later field is decoded from the
\* offset the kernel wrote it at and the cursor ends at the end of the
\* record (the AUX snapshot is the last field and is not stepped over).
C28_CursorAfterBranchStack ==
    (/\ parsed # NotParsed
     /\ parsed.kind = "Sample"
     /\ BitSet(parser.sample_type, PERF_SAMPLE_BRANCH_STACK)
     /\ ~BitSet(parser.sample_type, PERF_SAMPLE_AUX))
    => parsed.pos = Size(record)

(* ------------- operations on the perf file: claims --------------------- *)

\* C21: Counter::switch_to changes only the type, config, config1,
\* config2, config3 and bp_type fields of the cached attribute; every
\* other field (read_format, sample_type, the option bits, ...) has the
\* same value after the call as before it.
C21_SwitchToFrame ==
    [][(ctlRet'.call = "switch_to" /\ nioctls' # nioctls)
         => /\ DOMAIN cached' = DOMAIN cached
            /\ \A f \in DOMAIN cached \ EventFields :
                  cached'[f] = cached[f]]_vars

\* A counter opened on a raw event with a read format, a sample format
\* and option bits was switched to a write breakpoint.
C21_Witness ==
    /\ ctlRet.call = "switch_to"
    /\ ctlRet.ret = "Ok"
    /\ ctlRet.was = PERF_TYPE_RAW
    /\ cached.type_ = PERF_TYPE_BREAKPOINT
    /\ cached.bp_type = 2
    /\ cached.config2 = 8
    /\ cached.read_format = PERF_FORMAT_ID
    /\ BitSet(cached.sample_type, PERF_SAMPLE_PERIOD)
    /\ "freq" \in cached.bits

\* C22: query_bpf(cap) returns exactly the prog_cnt ids the kernel wrote
\* and None when the ioctl succeeds, Ok with the cap ids that fit and
\* Some(total - cap) when it fails with ENOSPC, and Err for any other
\* error.
C22_QueryBpf ==
    ctlRet.call = "query_bpf"
    => CASE ctlRet.errno = 0 ->
              /\ ctlRet.ret = "Ok"
              /\ ctlRet.ids = [k \in 1..ctlRet.total |-> k]
              /\ ctlRet.lost = -1
         [] ctlRet.errno = ENOSPC ->
              /\ ctlRet.ret = "Ok"
              /\ ctlRet.ids = [k \in 1..ctlRet.buf_len |-> k]
              /\ ctlRet.lost = ctlRet.total - ctlRet.buf_len
         [] OTHER -> ctlRet.ret = "Err"

\* C27: setting an ftrace filter issues exactly one ioctl on the perf
\* file, with operation SET_FILTER, and leaves the event count alone.
C27_FtraceFilterOp ==
    [][(ctlRet'.call = "with_ftrace_filter" /\ nioctls' # nioctls)
         => /\ nioctls' = nioctls + 1
            /\ lastIoctl'.op = "SET_FILTER"
            /\ evcount' = evcount]_vars

\* A filter was set on a counter that had counted events.
C27_Witness ==
    /\ ctlRet.call = "with_ftrace_filter"
    /\ ctlRet.ret = "Ok"
    /\ lastIoctl.op = "SET_FILTER"
    /\ evcount > 0

\* The last operation on the perf file was a successful
\* enable_counter_with(n), n >= 1, issued while the counter was disabled.
Refreshed ==
    /\ ctlRet.call = "enable_counter_with"
    /\ ctlRet.ret = "Ok"
    /\ ctlRet.n >= 1
    /\ ~ctlRet.was.enabled

C26_AutoDisableTerminates ==
    (/\ Refreshed
     /\ ~enabled
     /\ sig = "POLL_HUP"
     /\ MaxPolls - npolls >= Len(written) - Len(delivered) + 2)
    ~> (pollRes = "None")

\* C23: with PERF_FORMAT_GROUP the statistics decoder reads nr, the
\* optional time_enabled and time_running, then nr entries { value,
\* [id], [lost] }: the first entry is the leader's count, id and lost,
\* the other nr - 1 are the siblings in buffer order; without
\* PERF_FORMAT_GROUP the order is value, [time_enabled], [time_running],
\* [id], [lost].  So Counter::stat returns what the kernel reported for
\* every event of the group.
C23_StatDecoded ==
    [][stat' # stat
         => LET R == leader.read_format
                opt(flag, v) == IF BitSet(R, flag) THEN v ELSE -1
            IN stat' =
                 [count |-> 100,
                  id |-> opt(PERF_FORMAT_ID, 101),
                  lost_records |-> opt(PERF_FORMAT_LOST, 102),
                  time_enabled |-> opt(PERF_FORMAT_TOTAL_TIME_ENABLED, 7),
                  time_running |-> opt(PERF_FORMAT_TOTAL_TIME_RUNNING, 5),
                  siblings |->
                      IF BitSet(R, PERF_FORMAT_GROUP)
                      THEN [i \in 1..siblings |->
                              [count |-> 100 + 10 * i,
                               id |-> opt(PERF_FORMAT_ID, 101 + 10 * i),
                               lost_records |->
                                   opt(PERF_FORMAT_LOST, 102 + 10 * i)]]
                      ELSE <<>>]]_vars

\* The statistics of a leader with two siblings were read with ids, lost
\* counts and one of the times.
C23_Witness ==
    /\ stat # NoStat
    /\ "siblings" \in DOMAIN stat
    /\ Len(stat.siblings) = 2
    /\ stat.siblings[2] = [count |-> 120, id |-> 121, lost_records |-> 122]
    /\ stat.time_running = 5
    /\ stat.time_enabled = -1

\* C24: for a Comm, Mmap, Cgroup, Ksymbol or TextPoke record the
\* sample_id trailer is read at the record-relative offset that is the
\* end of the variable-length field rounded up to a multiple of 8,
\* whether the chunk is borrowed from the ring or an owned copy.
C24_TrailerOffset ==
    parsed.kind \in TrailerKinds
        => /\ parsed.pos = KernelTrailerOffset(record.kind, record.var)
           /\ parsed.pos % U64 = 0

\* C31: no lost wake-up.  When the most recent poll returned Pending and
\* the kernel marks the perf file readable, the waker of that poll is
\* eventually woken (unless the future is polled again first, which
\* replaces the waker): a wake-up of an older waker does not use up the
\* readiness event.
C31_NoLostWakeup ==
    \A w \in 1..MaxPolls :
        (pollRes = "Pending" /\ npolls = w /\ pollIn /\ ~full)
            ~> (w \in woken \/ npolls > w)

\* C32: the Namespaces decoder consumes nr_namespaces after pid and tid,
\* so namespace entry i is decoded from the 16 bytes at offset 16 + 16i
\* after the record header, and the trailer is read after the last
\* entry.
C32_NamespacesDecoded ==
    parsed.kind = "Namespaces"
        => /\ \A i \in 0..(NR_NAMESPACES - 1) :
                 /\ parsed.nss[i].dev = record.body[3 + 2 * i]
                 /\ parsed.nss[i].inode = record.body[4 + 2 * i]
           /\ parsed.pos = HeaderSize + 16 + 16 * NR_NAMESPACES

\* C33: when the PERF_EVENT_IOC_MODIFY_ATTRIBUTES ioctl of
\* Counter::switch_to fails, the cached attribute is what it was before
\* the call.
C33_FailedSwitchKeepsCache ==
    [][(ctlRet'.call = "switch_to" /\ nioctls' # nioctls
          /\ ctlRet'.ret = "Err")
         => cached' = cached]_vars

\* C34: a CounterGroup::add that fails (event lowering, attribute
\* assembly or perf_event_open) leaves the group as it was: the same
\* siblings, the same read buffer of the leader.
C34_FailedAddKeepsGroup ==
    [][(group /\ newRet' \in {"Unsupported", "OpenError"})
         => /\ siblings' = siblings
            /\ leader' = leader]_vars

\* An add failed for a group that had a sibling already: the event
\* could not be lowered on this build.
C34_Witness ==
    /\ group
    /\ siblings >= 1
    /\ event = "CgroupSwitch"
    /\ newRet = "Unsupported"
    /\ leader.read_buf > 8

\* C35: Counter::sampler answers AlreadyExists only while a Sampler of
\* the counter is alive; after the Sampler was dropped, and after a call
\* that failed (size overflow, mmap error), a call is not rejected with
\* AlreadyExists.
C35_AlreadyExistsOnlyWhileAlive ==
    [][(calls' = calls + 1 /\ samplers = 0)
         => samplerRet' # "AlreadyExists"]_vars

\* The third call succeeded: each of the two calls before it failed in
\* mmap or gave a Sampler that was dropped since.
C35_Witness ==
    /\ calls = 3
    /\ mmaps = 3
    /\ samplers = 1
    /\ strong = 2
    /\ samplerRet = "Ok"

\* C36: a Ksymbol record decodes to State::Unreg exactly when the
\* PERF_RECORD_KSYMBOL_FLAGS_UNREGISTER bit is set in its flags, and to
\* State::Reg otherwise.
C36_KsymbolState ==
    parsed.kind = "Ksymbol"
        => parsed.state =
             IF BitSet(record.flags, PERF_RECORD_KSYMBOL_FLAGS_UNREGISTER)
             THEN "Unreg" ELSE "Reg"

\* C37: lowering a Breakpoint carries its addr into config1 of the event
\* tuple, so breakpoints that differ only in the address lower to
\* different tuples.
C37_BreakpointAddr ==
    ctlRet.call = "try_into"
        => /\ ctlRet.cfg.config1 = ctlRet.event.addr
           /\ \A bp \in Breakpoints :
                 (bp.ty = ctlRet.event.ty /\ bp.len = ctlRet.event.len
                    /\ bp.addr # ctlRet.event.addr)
                 => BreakpointTryInto(bp) # ctlRet.cfg

\* C38: for an AUX chunk that crosses the ring end the split lengths
\* are computed without arithmetic overflow or wraparound: the high part
\* is R - tail long, the low part chunk_len - (R - tail), and the copied
\* chunk is the two ranges one after the other.
C38_AuxSplit ==
    [][\A max \in 0..MaxAuxChunk :
         LET len == IF max # 0 /\ max < AuxAvailable
                    THEN max ELSE AuxAvailable
             hi == AuxSize - auxTail
         IN (AuxPop(max) /\ auxTail + len > AuxSize)
            => /\ auxChunk'.kind = "Owned"
               /\ ~auxChunk'.wrapped
               /\ auxChunk'.hi_part_len = hi
               /\ auxChunk'.lo_part_len = len - hi
               /\ auxChunk'.bytes =
                    [k \in 1..len |->
                       IF k <= hi THEN auxAlloc[auxTail + k - 1]
                       ELSE auxAlloc[k - hi - 1]]]_vars

\* C39: the default value of SampleOn is Count(0): an attribute assembled
\* from Opts that leave sample_on at its default has the freq bit clear
\* and sample_period = 0.
C39_DefaultSampleOn ==
    (newRet # "None" /\ "sample_on.Count" \notin opts
     /\ "bits" \in DOMAIN attr)
        => ("freq" \notin attr.bits /\ attr.sample_period = 0)

(* --------------------------- specifications ---------------------------- *)

InitRing ==
    /\ alloc = [p \in 0..(RingSize - 1) |-> 0]
    /\ tail = 0
    /\ head = 0
    /\ full = FALSE
    /\ chunk = [i \in Iters |-> NoChunk]
    /\ popRet = [i \in Iters |-> "-"]
    /\ stores = [i \in Iters |-> 0]
    /\ lastStore = [val |-> 0, ord |-> "None", at |-> "init", by |-> 0]
    /\ written = <<>>
    /\ delivered = <<>>
    /\ ub = FALSE

LatestVersion == 613

\* The ring, the sampler and the iterator do not depend on the build.
Init ==
    /\ InitRing /\ InitCounter /\ InitAsync /\ kver = LatestVersion
    /\ overflow_checks = FALSE
    /\ InitGroup /\ InitAux /\ InitParse /\ InitCtl

\* The latest headers, built with overflow checks (the debug profile) or
\* without (the release profile).
InitAnyProfile ==
    /\ InitRing /\ InitCounter /\ InitAsync /\ kver = LatestVersion
    /\ overflow_checks \in BOOLEAN
    /\ InitGroup /\ InitAux /\ InitParse /\ InitCtl

\* One iterator reading the ring while the kernel writes.
Next ==
    \/ \E len \in HeaderSize..MaxRecLen : KernelWrite(len)
    \/ Pop(1)
    \/ DropChunk(1)

Spec == Init /\ [][Next]_vars

\* Any number of iterators of one Sampler.
NextIters ==
    \/ \E len \in HeaderSize..MaxRecLen : KernelWrite(len)
    \/ \E i \in Iters : Pop(i)
    \/ \E i \in Iters : DropChunk(i)

SpecIters == Init /\ [][NextIters]_vars

\* Counter::sampler calls and Sampler drops on one Counter.
NextCounter ==
    \/ \E exp \in 0..MaxExp, mmapOk \in BOOLEAN : CounterSampler(exp, mmapOk)
    \/ SamplerDrop

SpecCounter == Init /\ [][NextCounter]_vars

\* The asynchronous iterator, its helper thread and the kernel.
NextAsync ==
    \/ \E len \in {HeaderSize, MaxRecLen}, wake \in BOOLEAN :
          KernelOutput(len, wake)
    \/ Hangup
    \/ Poll
    \/ PollUnblock
    \/ DropIter
    \/ HelperRecv
    \/ HelperEpoll
    \/ HelperEintr
    \/ HelperWake

SpecAsync == Init /\ [][NextAsync]_vars

\* The helper thread and the polling thread are scheduled; the kernel and
\* signals are not obliged to do anything.
FairSpecAsync ==
    /\ SpecAsync
    /\ WF_vars(HelperRecv)
    /\ WF_vars(HelperEpoll)
    /\ WF_vars(HelperWake)
    /\ WF_vars(PollUnblock)

\* The asynchronous iterator of a task that stays alive, polled at any
\* time (a future may be polled again before its waker was woken), with
\* the helper thread scheduled.
NextWake ==
    \/ \E len \in {HeaderSize, MaxRecLen}, wake \in BOOLEAN :
          KernelOutput(len, wake)
    \/ Poll
    \/ PollUnblock
    \/ HelperRecv
    \/ HelperEpoll
    \/ HelperWake

SpecWake == Init /\ [][NextWake]_vars

FairSpecWake ==
    /\ SpecWake
    /\ WF_vars(HelperRecv)
    /\ WF_vars(HelperEpoll)
    /\ WF_vars(HelperWake)
    /\ WF_vars(PollUnblock)

\* The attribute assembler and the counter group, for every build: the
\* options of a Counter::new call are any StatFormat.
InitAnyBuild ==
    /\ InitRing /\ InitCounter /\ InitAsync /\ InitBuild /\ InitGroup
    /\ InitAux /\ InitParse /\ InitCtl

\* A group is built, then the statistics of its leader are read.
NextGroup ==
    \/ /\ stat = NoStat
       /\ \E o \in SUBSET StatFormatOpts, openOk \in BOOLEAN :
             CounterNew("Hardware", o, openOk)
    \/ /\ stat = NoStat
       /\ CounterGroupFrom
    \/ /\ stat = NoStat
       /\ \E o \in SUBSET SiblingStatFormatOpts, openOk \in BOOLEAN :
             CounterGroupAdd("Hardware", o, openOk)
    \/ /\ stat = NoStat
       /\ CounterGroupAdd("CgroupSwitch", {}, TRUE)
    \/ CounterStat

SpecGroup == InitAnyBuild /\ [][NextGroup]_vars

\* The AUX ring with its hardware tracer and one iterator.
NextAux ==
    \/ \E n \in 1..MaxAuxWrite : AuxKernelWrite(n)
    \/ \E max \in 0..MaxAuxChunk : AuxPop(max)
    \/ AuxDropChunk

SpecAux == InitAnyProfile /\ [][NextAux]_vars

\* Counter::new and CounterGroup::add with every event and every Opts
\* that differs from the default in at most MaxOpts settings, with
\* perf_event_open failing for them; a leader and siblings with the
\* default Opts are opened.  The inputs are enumerated only where the
\* action is enabled.
NextAttr ==
    \/ /\ newRet = "None"
       /\ \E e \in Events, o \in OptsValues : CounterNew(e, o, FALSE)
    \/ CounterNew("Hardware", {}, TRUE)
    \/ CounterGroupFrom
    \/ /\ group
       /\ \E e \in Events, o \in SiblingOptsValues :
             CounterGroupAdd(e, o, FALSE)
    \/ CounterGroupAdd("Hardware", {}, TRUE)

SpecAttr == InitAnyBuild /\ [][NextAttr]_vars

\* One sampler, one record and one parse of it in a behaviour; the inputs
\* are enumerated only where the action is enabled.
NextParse ==
    \/ /\ parser = NoParser
       /\ \E o \in ParserOptsValues, w \in 1..MaxRegs : SamplerParser(o, w)
    \/ /\ record = NoRecord
       /\ \E n \in 0..MaxCount, abi \in Abis, lbr \in BOOLEAN,
             val \in Values :
             KernelOutputSample([n |-> n, abi |-> abi, lbr |-> lbr,
                                 val |-> val])
    \/ /\ record = NoRecord
       /\ \E n \in 0..MaxCount, val \in Values : KernelOutputUnknown(n, val)
    \/ \E junk \in Values : Parse(junk)

SpecParse == InitAnyBuild /\ [][NextParse]_vars

\* Records with a variable-length field are written, lent and parsed.
NextTrailer ==
    \/ /\ record = NoRecord
       /\ \E kind \in TrailerKinds, n \in 0..MaxVarLen, owned \in BOOLEAN,
             base \in 0..(U64 - 1) :
             KernelOutputRecord(kind, n, owned, base)
    \/ ParseRecord
    \/ /\ record = NoRecord
       /\ \E val \in Values : KernelOutputNamespaces(val)
    \/ ParseNamespaces

SpecTrailer == InitAnyBuild /\ [][NextTrailer]_vars

\* A counter, the operations on its perf file and the kernel's event.
NextCtl ==
    \/ /\ cached = NotOpened
       /\ \E ev \in EventConfigs,
             o \in {{}, {"enable", "stat_format.id", "sample_format.period"},
                    {"inherit.NewChild"}} : CounterOpen(ev, o)
    \/ \E ev \in EventConfigs, ok \in BOOLEAN : SwitchTo(ev, ok)
    \/ \E buf_len, total \in 0..MaxProgs, fail \in BOOLEAN :
          QueryBpf(buf_len, total, fail)
    \/ \E ok \in BOOLEAN : WithFtraceFilter(ok)
    \/ Disable
    \/ \E n \in 0..MaxRefresh : EnableCounterWith(n)
    \/ KernelOverflow(HeaderSize, TRUE)
    \/ \E bp \in Breakpoints : EventTryIntoBreakpoint(bp)

\* The operations on the perf file differ between builds at linux-6.3
\* only (config3 in switch_to): a build on either side of it.
InitCtlBuilds == InitAnyBuild /\ kver \in {601, 603}

SpecCtl == InitCtlBuilds /\ [][NextCtl]_vars

\* `while let Some(_) = iter.next(..).await` on an executor: the future
\* is polled at first, after it returned a record and after its waker
\* was woken.
AwaitNext ==
    /\ pollRes \in {"-", "Some"} \/ npolls \in woken
    /\ Poll

\* A disabled counter is enabled for a number of samples while its
\* sampler is read through an asynchronous iterator.
NextRefresh ==
    \/ cached = NotOpened /\ CounterOpen(CHOOSE ev \in EventConfigs : TRUE, {})
    \/ nioctls = 0 /\ \E n \in 1..MaxRefresh : EnableCounterWith(n)
    \/ \E len \in {HeaderSize, MaxRecLen}, wake \in BOOLEAN :
          KernelOverflow(len, wake)
    \/ AwaitNext
    \/ HelperRecv
    \/ HelperEpoll
    \/ HelperWake

SpecRefresh == Init /\ [][NextRefresh]_vars

\* The helper thread and the executor are scheduled (a future polled
\* after wake-ups only never finds the channel full).  The kernel is not
\* obliged to do anything.
FairSpecRefresh ==
    /\ SpecRefresh
    /\ WF_vars(HelperRecv)
    /\ WF_vars(HelperEpoll)
    /\ WF_vars(HelperWake)
    /\ WF_vars(AwaitNext)

====
